---------------------------- MODULE Spec2Model ----------------------------
(***************************************************************************)
(* Spotter: training cycles, their dated schedule, and the weight          *)
(* suggestion engine with its 24h cache.                                   *)
(*                                                                         *)
(* Dates are day numbers; day 0 is a Monday, so date.weekday() is d % 7    *)
(* (Monday = 0 .. Sunday = 6).  Weights are in tenths of a pound, average  *)
(* reps in half reps, time in hours.  Python's None is the string "None"   *)
(* for a week_pattern and the number NoneValue for a weight.               *)
(***************************************************************************)
EXTENDS Integers, Sequences, FiniteSets

VARIABLES
    cycles,                  \* table cycles (one user, at most one cycle)
    cycle_workout_slots,     \* table cycle_workout_slots of that cycle
    scheduled_workouts,      \* table scheduled_workouts; a row's id is its index
    response,                \* the last HTTP response, with what the request was
    workout_sessions,        \* session aggregates of one exercise, newest first
    weight_suggestion_cache, \* table weight_suggestion_cache (unique per user, exercise)
    utcnow,                  \* datetime.utcnow(), in hours
    last_suggestion,         \* the last call of calculate_weight_suggestion
    today,                   \* datetime.now().date(), a day number
    last_adapt,              \* the last call of should_show_adapt_option
    weekly_summaries,        \* get_weekly_training_summary of the user, newest first
    compound_trends,         \* get_compound_lift_trends of the user, oldest first
    last_signals,            \* the last call of detect_training_signals
    coach_recommendations,   \* table coach_recommendations; a row's id is its index
    adapted_workouts,        \* table adapted_workouts: the number of rows
    ai_usage_log,            \* table ai_usage_log: created_at of each row
    llm_requests,            \* the requests posted to the LLM: time of each
    ai_settings,             \* AI_CONFIG['enabled'] and Config.ANTHROPIC_API_KEY
    last_check,              \* the last call of an AI-assisted entry point
    last_schedule,           \* the last call of generate_schedule or of its preview
    last_plan,               \* the last rendering of the plan view
    cycle_exercises,         \* table cycle_exercises, in the order the store returns it
    last_lookup,             \* the last exercise query or week pattern resolution
    notification_log,        \* table notification_log
    deliveries               \* the messages notification_service delivered

week_vars == <<today, last_adapt>>

signal_vars == <<weekly_summaries, compound_trends, last_signals>>

advisor_vars == <<coach_recommendations, adapted_workouts, ai_usage_log, llm_requests,
                  ai_settings, last_check>>

service_vars == <<last_schedule, last_plan, cycle_exercises, last_lookup,
                  notification_log, deliveries>>

planner_vars == <<week_vars, signal_vars, advisor_vars, service_vars>>

vars == <<cycles, cycle_workout_slots, scheduled_workouts, response,
          workout_sessions, weight_suggestion_cache, utcnow, last_suggestion,
          today, last_adapt, weekly_summaries, compound_trends, last_signals,
          coach_recommendations, adapted_workouts, ai_usage_log, llm_requests,
          ai_settings, last_check, last_schedule, last_plan, cycle_exercises,
          last_lookup, notification_log, deliveries>>

cycle_vars == <<cycles, cycle_workout_slots, scheduled_workouts, response>>

coach_vars == <<workout_sessions, weight_suggestion_cache, utcnow, last_suggestion>>

--------------------------------------------------------------------------
(* Bounds *)

MaxWeeks == 3

MaxRotation == 3

MaxScheduledRows == 4

MaxDay == 8

MaxSummaries == 5

MaxTrendSessions == 4

MaxRequests == 2

MaxRecommendations == 2

--------------------------------------------------------------------------
(* Week patterns *)

NoPattern == "None"

Digits == <<"0", "1", "2", "3", "4", "5", "6", "7", "8", "9">>

\* f'week_mod_{mod}' for a one-digit mod
week_mod_tag(mod) == "week_mod_" \o Digits[mod + 1]

WeekPatterns ==
    {NoPattern, "odd", "even"} \cup {week_mod_tag(m) : m \in 0..(MaxRotation - 1)}

\* date.weekday()
weekday(d) == d % 7

\* odd and even weeks taken for each other
applicable_pattern_parity_swapped(week_num, rotation_weeks) ==
    IF rotation_weeks = 1 THEN NoPattern
    ELSE IF rotation_weeks = 2
         THEN (IF week_num % 2 = 0 THEN "odd" ELSE "even")
         ELSE week_mod_tag(week_num % rotation_weeks)

\* the tag generate_cycle_schedule resolves for a week
applicable_pattern(week_num, rotation_weeks) ==
    IF rotation_weeks = 1 THEN NoPattern
    ELSE IF rotation_weeks = 2
         THEN (IF week_num % 2 = 1 THEN "odd" ELSE "even")
         ELSE week_mod_tag(week_num % rotation_weeks)

\* every slot scheduled in every week
slot_applies_every_week(slot, applicable) == TRUE

\* the test of generate_cycle_schedule that ends in `continue`, negated
slot_applies(slot, applicable) ==
    ~(/\ slot.week_pattern # NoPattern
      /\ applicable # NoPattern
      /\ slot.week_pattern # applicable)

\* the week counted from the start date itself, not from its Monday
workout_date_from_start(start_date, week_num, slot) ==
    LET week_start == start_date + 7 * (week_num - 1)
    IN  week_start + slot.day_of_week

\* week_start, week_monday and workout_date of generate_cycle_schedule
workout_date(start_date, week_num, slot) ==
    LET week_start == start_date + 7 * (week_num - 1)
        week_monday == week_start - weekday(week_start)
    IN  week_monday + slot.day_of_week

\* the inner loop: the rows of one week, in slot order
RECURSIVE week_rows(_, _, _, _, _)
week_rows(start_date, week_num, workout_slots, rotation_weeks, i) ==
    IF i > Len(workout_slots) THEN <<>>
    ELSE LET slot == workout_slots[i]
             rest == week_rows(start_date, week_num, workout_slots, rotation_weeks, i + 1)
         IN  IF slot_applies(slot, applicable_pattern(week_num, rotation_weeks))
             THEN <<[cycle_workout_slot_id |-> slot.id,
                     scheduled_date |-> workout_date(start_date, week_num, slot),
                     week_number |-> week_num,
                     status |-> "scheduled"]>> \o rest
             ELSE rest

\* the outer loop: the list `scheduled` that is bulk-inserted
RECURSIVE generate_cycle_schedule(_, _, _, _, _)
generate_cycle_schedule(start_date, length_weeks, workout_slots, rotation_weeks, week_num) ==
    IF week_num > length_weeks THEN <<>>
    ELSE week_rows(start_date, week_num, workout_slots, rotation_weeks, 1)
         \o generate_cycle_schedule(start_date, length_weeks, workout_slots,
                                    rotation_weeks, week_num + 1)

--------------------------------------------------------------------------
(* Slots as get_cycle_workout_slots returns them: ordered by week_pattern  *)
(* (nulls first), then day_of_week, then order_index.                      *)

pattern_rank(p) ==
    IF p = NoPattern THEN 0
    ELSE IF p = "even" THEN 1
    ELSE IF p = "odd" THEN 2
    ELSE 3 + (CHOOSE m \in 0..9 : p = week_mod_tag(m))

slot_before(a, b) ==
    \/ pattern_rank(a.week_pattern) < pattern_rank(b.week_pattern)
    \/ /\ pattern_rank(a.week_pattern) = pattern_rank(b.week_pattern)
       /\ \/ a.day_of_week < b.day_of_week
          \/ a.day_of_week = b.day_of_week /\ a.order_index < b.order_index

get_cycle_workout_slots ==
    LET n == Len(cycle_workout_slots)
        pos(i) == 1 + Cardinality({j \in 1..n :
                         slot_before(cycle_workout_slots[j], cycle_workout_slots[i])})
    IN  [k \in 1..n |-> cycle_workout_slots[CHOOSE i \in 1..n : pos(i) = k]]

--------------------------------------------------------------------------
(* HTTP handlers of the cycle API *)

NoResponse ==
    [op |-> "none", code |-> 0, scheduled_id |-> 0, before_status |-> "none",
     before_date |-> 0, new_date |-> 0, rows_before |-> 0]

\* the rows created_slots of api_create_cycle: one per slot_data, order_index = i
created_slots(workout_slots) ==
    [i \in 1..Len(workout_slots) |->
        [id |-> i,
         day_of_week |-> workout_slots[i].day_of_week,
         order_index |-> i,
         week_pattern |-> workout_slots[i].week_pattern]]

api_create_cycle(start_date, length_weeks, rotation_weeks, workout_slots) ==
    /\ cycles = <<>>
    /\ LET slots == created_slots(workout_slots)
           scheduled == IF slots # <<>>
                        THEN generate_cycle_schedule(start_date, length_weeks, slots,
                                                     rotation_weeks, 1)
                        ELSE <<>>
       IN  /\ cycle_workout_slots' = slots
           /\ scheduled_workouts' = scheduled_workouts \o scheduled
           /\ cycles' = <<[start_date |-> start_date,
                           length_weeks |-> length_weeks,
                           rotation_weeks |-> rotation_weeks,
                           status |-> "active"]>>
    /\ response' = [NoResponse EXCEPT !.op = "create_cycle", !.code = 200,
                                      !.rows_before = Len(scheduled_workouts)]
    /\ UNCHANGED <<coach_vars, planner_vars>>

api_activate_cycle ==
    /\ cycles # <<>>
    /\ LET cycle == cycles[1]
           scheduled == generate_cycle_schedule(cycle.start_date, cycle.length_weeks,
                                                get_cycle_workout_slots,
                                                cycle.rotation_weeks, 1)
       IN  /\ Len(scheduled_workouts) + Len(scheduled) <= MaxScheduledRows
           /\ scheduled_workouts' = scheduled_workouts \o scheduled
           /\ cycles' = <<[cycle EXCEPT !.status = "active"]>>
    /\ response' = [NoResponse EXCEPT !.op = "activate_cycle", !.code = 200,
                                      !.rows_before = Len(scheduled_workouts)]
    /\ UNCHANGED <<cycle_workout_slots, coach_vars, planner_vars>>

\* db_cycles.py defines no get_scheduled_workout_by_id: the attribute lookup in
\* api_reschedule_workout raises AttributeError
get_scheduled_workout_by_id_defined == FALSE

reschedule_workout(rows, scheduled_id, new_date) ==
    [rows EXCEPT ![scheduled_id].scheduled_date = new_date,
                 ![scheduled_id].status = "rescheduled"]

complete_scheduled_workout(rows, scheduled_id) ==
    [rows EXCEPT ![scheduled_id].status = "completed"]

skip_scheduled_workout(rows, scheduled_id) ==
    [rows EXCEPT ![scheduled_id].status = "skipped"]

schedule_request(op, code, scheduled_id, new_date) ==
    [op |-> op, code |-> code, scheduled_id |-> scheduled_id,
     before_status |-> scheduled_workouts[scheduled_id].status,
     before_date |-> scheduled_workouts[scheduled_id].scheduled_date,
     new_date |-> new_date, rows_before |-> Len(scheduled_workouts)]

api_reschedule_workout(scheduled_id, new_date) ==
    /\ scheduled_id \in DOMAIN scheduled_workouts
    /\ IF ~get_scheduled_workout_by_id_defined
       THEN \* except Exception: 500
            /\ response' = schedule_request("reschedule", 500, scheduled_id, new_date)
            /\ UNCHANGED scheduled_workouts
       ELSE IF scheduled_workouts[scheduled_id].status = "completed"
            THEN /\ response' = schedule_request("reschedule", 400, scheduled_id, new_date)
                 /\ UNCHANGED scheduled_workouts
            ELSE /\ response' = schedule_request("reschedule", 200, scheduled_id, new_date)
                 /\ scheduled_workouts' =
                        reschedule_workout(scheduled_workouts, scheduled_id, new_date)
    /\ UNCHANGED <<cycles, cycle_workout_slots, coach_vars, planner_vars>>

api_skip_workout(scheduled_id) ==
    /\ scheduled_id \in DOMAIN scheduled_workouts
    /\ scheduled_workouts' = skip_scheduled_workout(scheduled_workouts, scheduled_id)
    /\ response' = schedule_request("skip", 200, scheduled_id, 0)
    /\ UNCHANGED <<cycles, cycle_workout_slots, coach_vars, planner_vars>>

api_save_cycle_workout(scheduled_id) ==
    /\ scheduled_id \in DOMAIN scheduled_workouts
    /\ scheduled_workouts' = complete_scheduled_workout(scheduled_workouts, scheduled_id)
    /\ response' = schedule_request("save_cycle_workout", 200, scheduled_id, 0)
    /\ UNCHANGED <<cycles, cycle_workout_slots, coach_vars, planner_vars>>

--------------------------------------------------------------------------
(* Weight suggestions (ai_coach.py) and their cache (db_coach.py) *)

\* None, where a number is expected
NoneValue == -1

\* 5.0 lb and 2.5 lb, in tenths of a pound
WEIGHT_INCREMENT_HEAVY == 50

WEIGHT_INCREMENT_LIGHT == 25

\* timedelta(hours=24) of cache_weight_suggestion
CACHE_HOURS == 24

\* limit=3 of the history fetch, and history[:3]
HISTORY_LIMIT == 3

min(a, b) == IF a <= b THEN a ELSE b

max(a, b) == IF a >= b THEN a ELSE b

\* the sessions of the exercise, newest first, cut to the limit
get_recent_exercise_performance(limit) ==
    SubSeq(workout_sessions, 1, min(limit, Len(workout_sessions)))

\* an entry taken as valid at the very hour it expires
get_cached_weight_suggestion_at_expiry ==
    {row \in weight_suggestion_cache : row.valid_until >= utcnow}

\* the row of weight_suggestion_cache with valid_until > utcnow, if any
get_cached_weight_suggestion ==
    {row \in weight_suggestion_cache : row.valid_until > utcnow}

\* the loop over history[:3]: avg_reps >= target_rep_high (avg_reps in half reps)
sessions_at_ceiling(history, target_rep_high) ==
    Cardinality({i \in 1..min(HISTORY_LIMIT, Len(history)) :
                    history[i].avg_reps >= 2 * target_rep_high})

\* the elif of that loop: avg_reps < target_rep_low, for a session not at ceiling
sessions_below_floor(history, target_rep_low, target_rep_high) ==
    Cardinality({i \in 1..min(HISTORY_LIMIT, Len(history)) :
                    /\ ~(history[i].avg_reps >= 2 * target_rep_high)
                    /\ history[i].avg_reps < 2 * target_rep_low})

\* one session at the ceiling taken as enough
ready_to_progress_once(at_ceiling) == at_ceiling >= 1

ready_to_progress(at_ceiling) == at_ceiling >= 2

\* one session below the floor taken as enough
struggling_once(below_floor) == below_floor >= 1

struggling(below_floor) == below_floor >= 2

really_struggling(last_avg_reps, target_rep_low) ==
    last_avg_reps < 2 * (target_rep_low - 2)

\* the heavy and the light increment taken for each other
increment_for_swapped(is_heavy) ==
    IF is_heavy THEN WEIGHT_INCREMENT_LIGHT ELSE WEIGHT_INCREMENT_HEAVY

increment_for(is_heavy) ==
    IF is_heavy THEN WEIGHT_INCREMENT_HEAVY ELSE WEIGHT_INCREMENT_LIGHT

\* int(last_avg_reps)
int_reps(avg_reps) == avg_reps \div 2

WeightSuggestion(suggested_weight, reason, confidence, last_weight, last_reps, based_on_sessions) ==
    [suggested_weight |-> suggested_weight, reason |-> reason,
     confidence |-> confidence, last_weight |-> last_weight,
     last_reps |-> last_reps, based_on_sessions |-> based_on_sessions]

\* the two early returns of calculate_weight_suggestion
no_decision(history) ==
    history = <<>> \/ history[1].working_weight = NoneValue

\* calculate_weight_suggestion from the history fetch to the result
fresh_suggestion(history, target_rep_low, target_rep_high, is_heavy) ==
    IF history = <<>>
    THEN WeightSuggestion(NoneValue, "no_history", "low", NoneValue, NoneValue, 0)
    ELSE
    LET last_weight == history[1].working_weight
        last_avg_reps == history[1].avg_reps
        increment == increment_for(is_heavy)
        at_ceiling == sessions_at_ceiling(history, target_rep_high)
        below_floor == sessions_below_floor(history, target_rep_low, target_rep_high)
    IN  IF last_weight = NoneValue
        THEN WeightSuggestion(NoneValue, "no_history", "low", NoneValue, NoneValue,
                              Len(history))
        ELSE IF ready_to_progress(at_ceiling)
        THEN WeightSuggestion(last_weight + increment, "increase", "high",
                              last_weight, int_reps(last_avg_reps), Len(history))
        ELSE IF struggling(below_floor)
        THEN IF really_struggling(last_avg_reps, target_rep_low)
             THEN WeightSuggestion(max(last_weight - increment, 0), "decrease", "medium",
                                   last_weight, int_reps(last_avg_reps), Len(history))
             ELSE WeightSuggestion(last_weight, "maintain", "medium",
                                   last_weight, int_reps(last_avg_reps), Len(history))
        ELSE WeightSuggestion(last_weight, "maintain", "high",
                              last_weight, int_reps(last_avg_reps), Len(history))

\* the row cache_weight_suggestion upserts
cache_weight_suggestion(result, target_rep_low, target_rep_high) ==
    [suggested_weight |-> result.suggested_weight,
     suggestion_reason |-> result.reason,
     confidence |-> result.confidence,
     based_on_sessions |-> result.based_on_sessions,
     last_weight |-> result.last_weight,
     last_reps |-> result.last_reps,
     target_rep_range |-> <<target_rep_low, target_rep_high>>,
     valid_until |-> utcnow + CACHE_HOURS]

calculate_weight_suggestion(target_rep_low, target_rep_high, is_heavy, use_cache) ==
    LET cached == IF use_cache THEN get_cached_weight_suggestion ELSE {}
        call(result, history_read, history) ==
            [target_rep_low |-> target_rep_low, target_rep_high |-> target_rep_high,
             is_heavy |-> is_heavy, use_cache |-> use_cache, result |-> result,
             history_read |-> history_read, history |-> history, at |-> utcnow,
             cache_before |-> weight_suggestion_cache]
    IN  /\ IF cached # {}
           THEN LET row == CHOOSE r \in cached : TRUE
                IN  /\ last_suggestion' =
                           <<call(WeightSuggestion(row.suggested_weight,
                                                   row.suggestion_reason, row.confidence,
                                                   row.last_weight, row.last_reps,
                                                   row.based_on_sessions),
                                  FALSE, <<>>)>>
                    /\ UNCHANGED weight_suggestion_cache
           ELSE LET history == get_recent_exercise_performance(HISTORY_LIMIT)
                    result == fresh_suggestion(history, target_rep_low, target_rep_high,
                                               is_heavy)
                IN  /\ last_suggestion' = <<call(result, TRUE, history)>>
                    /\ weight_suggestion_cache' =
                           IF use_cache /\ ~no_decision(history)
                           THEN {cache_weight_suggestion(result, target_rep_low,
                                                         target_rep_high)}
                           ELSE weight_suggestion_cache
        /\ UNCHANGED <<workout_sessions, utcnow, cycle_vars, planner_vars>>

\* the clock moves on
tick(hours) ==
    /\ utcnow' = utcnow + hours
    /\ UNCHANGED <<workout_sessions, weight_suggestion_cache, last_suggestion, cycle_vars,
                   planner_vars>>

\* a completed workout adds the newest session of the exercise
save_workout(session) ==
    /\ workout_sessions' = <<session>> \o workout_sessions
    /\ UNCHANGED <<weight_suggestion_cache, utcnow, last_suggestion, cycle_vars,
                   planner_vars>>

--------------------------------------------------------------------------
(* Training signals: deload and progression detection.                    *)
(* A weekly summary is [total_volume, workouts_completed]; weekly_summaries *)
(* is newest first.  compound_trends maps a lift to the max weight of each  *)
(* of its sessions, oldest first; a lift without sessions maps to <<>>.     *)
(* A float the code compares is kept as an exact fraction <<num, den>>,     *)
(* den > 0; confidences are in hundredths.                                  *)

Lifts == {"Bench Press", "Squat", "Deadlift"}

\* sessions[-n:]
last_n(sessions, n) ==
    IF Len(sessions) <= n THEN sessions
    ELSE SubSeq(sessions, Len(sessions) - n + 1, Len(sessions))

\* weekly_summaries[a-1:b]
week_slice(summaries, a, b) ==
    IF a > Len(summaries) THEN <<>> ELSE SubSeq(summaries, a, min(b, Len(summaries)))

seq_max(xs) == CHOOSE m \in {xs[i] : i \in DOMAIN xs} : \A i \in DOMAIN xs : xs[i] <= m

RECURSIVE sum_of(_, _)
sum_of(xs, field) ==
    IF xs = <<>> THEN 0 ELSE Head(xs)[field] + sum_of(Tail(xs), field)

\* a changed test of one lift: all three recent maxima equal
lift_stalled_all_equal(sessions) ==
    /\ Len(sessions) >= 3
    /\ Cardinality({last_n(sessions, 3)[i] : i \in 1..3}) = 1

\* the test _detect_stalled_compounds applies to one lift
lift_stalled(sessions) ==
    /\ Len(sessions) >= 3
    /\ LET recent_maxes == last_n(sessions, 3)
       IN  \/ Cardinality({recent_maxes[i] : i \in 1..3}) = 1
           \/ seq_max(recent_maxes) = recent_maxes[1]

_detect_stalled_compounds(trends) == {lift \in Lifts : lift_stalled(trends[lift])}

\* a changed trend: the recent weeks against all the prior weeks
_calculate_volume_trend_all_prior(summaries) ==
    IF Len(summaries) < 2 THEN <<0, 1>>
    ELSE LET recent == week_slice(summaries, 1, 2)
             prior == week_slice(summaries, 3, Len(summaries))
             prior_sum == sum_of(prior, "total_volume")
         IN  IF prior = <<>> \/ prior_sum = 0 THEN <<0, 1>>
             ELSE <<sum_of(recent, "total_volume") * Len(prior) - prior_sum * Len(recent),
                    prior_sum * Len(recent)>>

\* (recent_vol - prior_vol) / prior_vol, the two means being sum / len
_calculate_volume_trend(summaries) ==
    IF Len(summaries) < 2 THEN <<0, 1>>
    ELSE LET recent == week_slice(summaries, 1, 2)
             prior == IF Len(summaries) >= 4 THEN week_slice(summaries, 3, 4)
                      ELSE week_slice(summaries, 3, Len(summaries))
             prior_sum == sum_of(prior, "total_volume")
         IN  IF prior = <<>> \/ prior_sum = 0 THEN <<0, 1>>
             ELSE <<sum_of(recent, "total_volume") * Len(prior) - prior_sum * Len(recent),
                    prior_sum * Len(recent)>>

\* min(total_workouts / expected, 1.0), expected three workouts a week
_calculate_completion_rate(summaries) ==
    IF summaries = <<>> THEN <<1, 1>>
    ELSE LET recent == week_slice(summaries, 1, 2)
             total_workouts == sum_of(recent, "workouts_completed")
             expected == Len(recent) * 3
         IN  IF total_workouts >= expected THEN <<1, 1>> ELSE <<total_workouts, expected>>

\* lifts whose last two sessions have the same max weight
_detect_exercises_at_ceiling(trends) ==
    {lift \in Lifts :
        /\ Len(trends[lift]) >= 2
        /\ last_n(trends[lift], 2)[1] = last_n(trends[lift], 2)[2]}

\* fraction < hundredths / 100
frac_lt(fraction, hundredths) == fraction[1] * 100 < hundredths * fraction[2]

\* fraction > hundredths / 100
frac_gt(fraction, hundredths) == fraction[1] * 100 > hundredths * fraction[2]

TrainingSignal(signal_type, signal_name, confidence) ==
    [signal_type |-> signal_type, signal_name |-> signal_name, confidence |-> confidence]

signal_if(fires, signal) == IF fires THEN <<signal>> ELSE <<>>

detect_training_signals(summaries, trends) ==
    IF Len(summaries) < 2 THEN [deload |-> <<>>, progression |-> <<>>]
    ELSE LET stalled_lifts == _detect_stalled_compounds(trends)
             volume_change == _calculate_volume_trend(summaries)
             completion_rate == _calculate_completion_rate(summaries)
             exercises_at_ceiling == _detect_exercises_at_ceiling(trends)
         IN  [deload |->
                  signal_if(Cardinality(stalled_lifts) >= 3,
                            TrainingSignal("deload", "plateau", 80))
                  \o signal_if(frac_lt(volume_change, -15),
                               TrainingSignal("deload", "volume_drop", 70))
                  \o signal_if(frac_lt(completion_rate, 70),
                               TrainingSignal("deload", "completion_drop", 60)),
              progression |->
                  signal_if(Cardinality(exercises_at_ceiling) >= 3,
                            TrainingSignal("progression", "rep_ceiling", 85))
                  \o signal_if(frac_gt(completion_rate, 90) /\ frac_gt(volume_change, 5),
                               TrainingSignal("progression", "consistent_progress", 75))]

\* a call of detect_training_signals on the user's training data
detect_signals_call ==
    /\ last_signals' = <<[weekly_summaries |-> weekly_summaries,
                          compound_trends |-> compound_trends,
                          signals |-> detect_training_signals(weekly_summaries,
                                                              compound_trends)]>>
    /\ UNCHANGED <<weekly_summaries, compound_trends, week_vars, advisor_vars,
                   service_vars, cycle_vars, coach_vars>>

--------------------------------------------------------------------------
(* Week status and the adapt-my-week gate.                                 *)
(* date.isoformat() is a string of fixed width compared character by      *)
(* character: here the two decimal digits of the day number.  A reason is  *)
(* the sequence of the words of the message.                               *)

isoformat(d) == <<d \div 10, d % 10>>

\* a changed comparison: on or before
iso_le(a, b) == a[1] < b[1] \/ (a[1] = b[1] /\ a[2] <= b[2])

\* a < b on ISO date strings
iso_lt(a, b) == a[1] < b[1] \/ (a[1] = b[1] /\ a[2] < b[2])

\* the ids of a set of scheduled rows, ordered by scheduled_date
RECURSIVE order_by_scheduled_date(_, _)
order_by_scheduled_date(rows, ids) ==
    IF ids = {} THEN <<>>
    ELSE LET first == CHOOSE i \in ids : \A j \in ids :
                          \/ rows[i].scheduled_date < rows[j].scheduled_date
                          \/ rows[i].scheduled_date = rows[j].scheduled_date /\ i <= j
         IN  <<first>> \o order_by_scheduled_date(rows, ids \ {first})

workout_info(rows, id) ==
    [id |-> id, scheduled_date |-> isoformat(rows[id].scheduled_date),
     status |-> rows[id].status]

is_completed(info) == info.status = "completed"

is_skipped(info) == info.status = "skipped"

is_open(info) == ~is_completed(info) /\ ~is_skipped(info)

\* the week status of the cycle; cycle_id is NoneValue or 1.  The key 'missed'
\* exists only once a row was put under it: missed is <<>> without the key and
\* <<list>> with it
get_current_week_status(rows, day, cycle_id) ==
    LET week_start == day - weekday(day)
        week_end == week_start + 6
        in_week == IF cycle_id = NoneValue THEN {}
                   ELSE {i \in DOMAIN rows : /\ cycle_id = 1
                                             /\ rows[i].scheduled_date >= week_start
                                             /\ rows[i].scheduled_date <= week_end}
        ordered == order_by_scheduled_date(rows, in_week)
        scheduled == [k \in 1..Len(ordered) |-> workout_info(rows, ordered[k])]
        is_missed(info) == is_open(info) /\ iso_lt(info.scheduled_date, isoformat(day))
        missed == SelectSeq(scheduled, is_missed)
    IN  [week_start |-> isoformat(week_start),
         week_end |-> isoformat(week_end),
         today |-> isoformat(day),
         day_of_week |-> weekday(day),
         days_remaining |-> week_end - day,
         scheduled |-> scheduled,
         completed |-> SelectSeq(scheduled, is_completed),
         skipped |-> SelectSeq(scheduled, is_skipped),
         remaining |-> SelectSeq(scheduled, is_open),
         missed |-> IF missed = <<>> THEN <<>> ELSE <<missed>>]

\* a changed read: the key is never found
get_missed_never(week_status) == <<>>

\* week_status.get('missed', [])
get_missed(week_status) ==
    IF week_status.missed = <<>> THEN <<>> ELSE week_status.missed[1]

missed_reason(missed) ==
    <<"You've", "missed", Digits[missed + 1], "scheduled",
      IF missed > 1 THEN "workouts." ELSE "workout.",
      "Want", "to", "adapt", "your", "week?">>

not_started_reason ==
    <<"You", "haven't", "started", "this", "week's", "workouts", "yet.",
      "Want", "to", "adapt", "your", "plan?">>

completed_early_reason ==
    <<"Great", "work", "completing", "your", "workouts!",
      "Want", "to", "add", "an", "extra", "session?">>

\* the pair (should_show, reason)
adapt_option(week_status) ==
    LET completed == Len(week_status.completed)
        scheduled == Len(week_status.scheduled)
        missed == Len(get_missed(week_status))
        days_left == week_status.days_remaining
        day_of_week == week_status.day_of_week
    IN  IF missed >= 1 THEN <<TRUE, missed_reason(missed)>>
        ELSE IF completed = 0 /\ scheduled > 0 /\ day_of_week >= 3
             THEN <<TRUE, not_started_reason>>
        ELSE IF completed = scheduled /\ scheduled > 0 /\ days_left >= 2
             THEN <<TRUE, completed_early_reason>>
        ELSE <<FALSE, <<>>>>

should_show_adapt_option(cycle_id) ==
    /\ LET week_status == get_current_week_status(scheduled_workouts, today, cycle_id)
           answer == adapt_option(week_status)
       IN  last_adapt' = <<[cycle_id |-> cycle_id,
                            rows |-> scheduled_workouts,
                            day |-> today,
                            week_status |-> week_status,
                            should_show |-> answer[1],
                            reason |-> answer[2]]>>
    /\ UNCHANGED <<today, signal_vars, advisor_vars, service_vars, cycle_vars,
                   coach_vars>>

\* a direct call of db_cycles.reschedule_workout
reschedule_workout_call(scheduled_id, new_date) ==
    /\ scheduled_id \in DOMAIN scheduled_workouts
    /\ response' = schedule_request("db_reschedule", 0, scheduled_id, new_date)
    /\ scheduled_workouts' = reschedule_workout(scheduled_workouts, scheduled_id, new_date)
    /\ UNCHANGED <<cycles, cycle_workout_slots, coach_vars, planner_vars>>

--------------------------------------------------------------------------
(* AI prescriptions, the recommendation check and week adaptation.          *)
(* A JSON value is [source, shape]; a reply of the LLM API is [exception,   *)
(* status_code, text], text being the words of the first content block.     *)
(* A coach_recommendations row is [cycle_id, recommendation_type,           *)
(* prescription, status, expires_at], inserted in the order of created_at.  *)

DAILY_LIMIT_PER_USER == 10

LIMIT_WINDOW_HOURS == 24

CACHE_RECOMMENDATIONS_HOURS == 24

None == [source |-> "none", shape |-> "None"]

LLMObject == [source |-> "llm", shape |-> "object"]

LLMArray == [source |-> "llm", shape |-> "array"]

EmptyObject == [source |-> "llm", shape |-> "empty"]

JSONDecodeError == [source |-> "raise", shape |-> "JSONDecodeError"]

AttributeError == [source |-> "raise", shape |-> "AttributeError"]

_get_default_deload_prescription == [source |-> "default", shape |-> "deload"]

_get_default_progression_prescription == [source |-> "default", shape |-> "progression"]

_get_default_adaptation == [source |-> "default", shape |-> "adaptation"]

limit_reached_error == [source |-> "error", shape |-> "Daily AI limit reached"]

\* a changed truth test: only None is false
truthy_unless_none(value) == value # None

\* Python's truth of a parsed JSON value: None and {} are false
truthy(value) == value # None /\ value # EmptyObject

\* the delimiter of a fenced code block, three backquotes
fence == "fence"

\* content.split(fence)[1], then a leading 'json' dropped
strip_fence(content) ==
    IF content # <<>> /\ content[1] = fence
    THEN LET later == {i \in DOMAIN content : i > 1 /\ content[i] = fence}
             end == IF later = {} THEN Len(content) + 1
                    ELSE CHOOSE i \in later : \A j \in later : i <= j
             inner == SubSeq(content, 2, end - 1)
         IN  IF inner # <<>> /\ inner[1] = "json" THEN Tail(inner) ELSE inner
    ELSE content

json_loads(content) ==
    IF content = <<"{prescription}">> THEN LLMObject
    ELSE IF content = <<"[prescription]">> THEN LLMArray
    ELSE IF content = <<"{}">> THEN EmptyObject
    ELSE JSONDecodeError

\* ai_usage_log rows newer than 24 hours are fewer than the limit
check_daily_ai_limit(log) ==
    Cardinality({i \in DOMAIN log : log[i] > utcnow - LIMIT_WINDOW_HOURS})
        < DAILY_LIMIT_PER_USER

\* [result, requested, logged]: what is returned, whether the request was
\* posted, whether log_ai_usage inserted a row
_call_anthropic_api(reply) ==
    IF ~ai_settings.api_key
    THEN [result |-> None, requested |-> FALSE, logged |-> FALSE]
    ELSE IF reply.exception # "none"
    THEN [result |-> None, requested |-> TRUE, logged |-> FALSE]
    ELSE IF reply.status_code = 200
    THEN LET parsed == json_loads(strip_fence(reply.text))
         IN  [result |-> IF parsed = JSONDecodeError THEN None ELSE parsed,
              requested |-> TRUE, logged |-> TRUE]
    ELSE [result |-> None, requested |-> TRUE, logged |-> FALSE]

NoAttempt == [prescription |-> None, requested |-> FALSE, logged |-> FALSE,
              limited |-> FALSE]

\* the body shared by the two prescription generators
generate_or_default(log, reply, default) ==
    IF ~ai_settings.enabled
    THEN [prescription |-> default, requested |-> FALSE, logged |-> FALSE,
          limited |-> FALSE]
    ELSE IF ~check_daily_ai_limit(log)
    THEN [prescription |-> default, requested |-> FALSE, logged |-> FALSE,
          limited |-> TRUE]
    ELSE LET call == _call_anthropic_api(reply)
         IN  [prescription |-> IF truthy(call.result) THEN call.result ELSE default,
              requested |-> call.requested, logged |-> call.logged, limited |-> FALSE]

generate_deload_prescription(log, reply) ==
    generate_or_default(log, reply, _get_default_deload_prescription)

generate_progression_prescription(log, reply) ==
    generate_or_default(log, reply, _get_default_progression_prescription)

generate_prescription(category, log, reply) ==
    IF category = "deload" THEN generate_deload_prescription(log, reply)
    ELSE generate_progression_prescription(log, reply)

\* a changed order of the two branches
categories_progression_first == <<"progression", "deload">>

\* the order of the two branches of check_and_get_recommendation
categories_in_order == <<"deload", "progression">>

\* a changed query: the expiry is not looked at
get_pending_recommendation_ignoring_expiry(cycle_id) ==
    LET pending == {i \in DOMAIN coach_recommendations :
                       /\ coach_recommendations[i].status = "pending"
                       /\ cycle_id # NoneValue =>
                              coach_recommendations[i].cycle_id = cycle_id}
    IN  IF pending = {} THEN 0
        ELSE CHOOSE i \in pending : \A j \in pending : j <= i

\* the id of the newest pending, unexpired row of the user (of the cycle, when
\* one is named), 0 for None; rows are inserted in the order of created_at
get_pending_recommendation(cycle_id) ==
    LET pending == {i \in DOMAIN coach_recommendations :
                       /\ coach_recommendations[i].status = "pending"
                       /\ coach_recommendations[i].expires_at > utcnow
                       /\ cycle_id # NoneValue =>
                              coach_recommendations[i].cycle_id = cycle_id}
    IN  IF pending = {} THEN 0
        ELSE CHOOSE i \in pending : \A j \in pending : j <= i

\* the columns the insert leaves to the table: status and expires_at
coach_recommendations_defaults ==
    [status |-> "pending", expires_at |-> utcnow + CACHE_RECOMMENDATIONS_HOURS]

create_recommendation(cycle_id, rec_type, prescription) ==
    [cycle_id |-> cycle_id, recommendation_type |-> rec_type,
     prescription |-> prescription,
     status |-> coach_recommendations_defaults.status,
     expires_at |-> coach_recommendations_defaults.expires_at]

NoResult == [id |-> 0, type |-> "None", prescription |-> None, is_cached |-> FALSE]

\* the requests posted since the initial state
posted == Cardinality({i \in DOMAIN llm_requests : llm_requests[i] >= 0})

stamps(n) == [i \in 1..n |-> utcnow]

count(flag) == IF flag THEN 1 ELSE 0

check_and_get_recommendation(cycle_id, reply) ==
    /\ UNCHANGED <<week_vars, signal_vars, service_vars, cycle_vars, coach_vars>>
    /\ LET existing == get_pending_recommendation(cycle_id)
           signals == detect_training_signals(weekly_summaries, compound_trends)
           order == categories_in_order
           first == IF signals[order[1]] # <<>>
                    THEN generate_prescription(order[1], ai_usage_log, reply)
                    ELSE NoAttempt
           log_after_first == ai_usage_log \o stamps(count(first.logged))
           second == IF ~truthy(first.prescription) /\ signals[order[2]] # <<>>
                     THEN generate_prescription(order[2], log_after_first, reply)
                     ELSE NoAttempt
           rec_type == IF truthy(first.prescription) THEN order[1]
                       ELSE IF truthy(second.prescription) THEN order[2]
                       ELSE "None"
           prescription == IF truthy(first.prescription) THEN first.prescription
                           ELSE second.prescription
           requested == count(first.requested) + count(second.requested)
           logged == count(first.logged) + count(second.logged)
           call == [op |-> "check", cycle_id |-> cycle_id, reply |-> reply, at |-> utcnow,
                    existing |-> existing, detection_run |-> existing = 0,
                    signals |-> signals, requested |-> 0, limited |-> FALSE,
                    rows_before |-> Len(coach_recommendations), result |-> NoResult]
       IN  IF existing # 0
           THEN /\ last_check' =
                       <<[call EXCEPT !.result =
                             [id |-> existing,
                              type |-> coach_recommendations[existing].recommendation_type,
                              prescription |-> coach_recommendations[existing].prescription,
                              is_cached |-> TRUE]]>>
                /\ UNCHANGED <<coach_recommendations, adapted_workouts, ai_usage_log,
                               llm_requests, ai_settings>>
           ELSE /\ posted + requested <= MaxRequests
                /\ rec_type # "None" => Len(coach_recommendations) < MaxRecommendations
                /\ coach_recommendations' =
                       IF rec_type = "None" THEN coach_recommendations
                       ELSE Append(coach_recommendations,
                                   create_recommendation(cycle_id, rec_type, prescription))
                /\ ai_usage_log' = ai_usage_log \o stamps(logged)
                /\ llm_requests' = llm_requests \o stamps(requested)
                /\ last_check' =
                       <<[call EXCEPT !.requested = requested,
                                      !.limited = first.limited \/ second.limited,
                                      !.result =
                                          IF rec_type = "None" THEN NoResult
                                          ELSE [id |-> Len(coach_recommendations) + 1,
                                                type |-> rec_type,
                                                prescription |-> prescription,
                                                is_cached |-> FALSE]]>>
                /\ UNCHANGED <<adapted_workouts, ai_settings>>

\* the user applies or dismisses a recommendation
update_recommendation_status(recommendation_id, status) ==
    /\ recommendation_id \in DOMAIN coach_recommendations
    /\ coach_recommendations' =
           [coach_recommendations EXCEPT ![recommendation_id].status = status]
    /\ UNCHANGED <<adapted_workouts, ai_usage_log, llm_requests, ai_settings,
                   last_check, week_vars, signal_vars, service_vars, cycle_vars,
                   coach_vars>>

\* result.get('suggestions', []) raises on a JSON array; the usage was logged
generate_week_adaptation(cycle_id, reply) ==
    /\ UNCHANGED <<week_vars, signal_vars, service_vars, cycle_vars, coach_vars>>
    /\ LET limit_ok == check_daily_ai_limit(ai_usage_log)
           api == IF limit_ok THEN _call_anthropic_api(reply)
                  ELSE [result |-> None, requested |-> FALSE, logged |-> FALSE]
           saved == limit_ok /\ truthy(api.result) /\ api.result # LLMArray
           returned == IF ~limit_ok THEN limit_reached_error
                       ELSE IF ~truthy(api.result) THEN _get_default_adaptation
                       ELSE IF api.result = LLMArray THEN AttributeError
                       ELSE api.result
       IN  /\ posted + count(api.requested) <= MaxRequests
           /\ adapted_workouts' = adapted_workouts + count(saved)
           /\ ai_usage_log' = ai_usage_log \o stamps(count(api.logged))
           /\ llm_requests' = llm_requests \o stamps(count(api.requested))
           /\ last_check' =
                  <<[op |-> "adapt_week", cycle_id |-> cycle_id, reply |-> reply,
                     at |-> utcnow, existing |-> 0, detection_run |-> FALSE,
                     signals |-> [deload |-> <<>>, progression |-> <<>>],
                     requested |-> count(api.requested), limited |-> ~limit_ok,
                     rows_before |-> Len(coach_recommendations),
                     result |-> [id |-> 0, type |-> "adaptation",
                                 prescription |-> returned, is_cached |-> FALSE]]>>
           /\ UNCHANGED <<coach_recommendations, ai_settings>>

--------------------------------------------------------------------------
(* Split patterns (workout_generator.py).  A generated slot keeps its      *)
(* day_number and its week_pattern; names, focuses and muscle groups are   *)
(* left out.                                                               *)

SplitTypes == {"full_body", "upper_lower", "ppl"}

\* the slots one pass of `for i in range(days_per_week)` appends
week_of_slots(days_per_week, week_pattern) ==
    [i \in 1..days_per_week |-> [day_number |-> i, week_pattern |-> week_pattern]]

GeneratedSchedule(days_per_week, rotation_weeks, workout_slots) ==
    [days_per_week |-> days_per_week, rotation_weeks |-> rotation_weeks,
     workout_slots |-> workout_slots]

\* no schedule returned
NoSchedule == GeneratedSchedule(0, 0, <<>>)

_generate_full_body(days_per_week) ==
    GeneratedSchedule(days_per_week, 1, week_of_slots(days_per_week, NoPattern))

_generate_upper_lower(days_per_week) ==
    IF days_per_week % 2 = 0
    THEN GeneratedSchedule(days_per_week, 1, week_of_slots(days_per_week, NoPattern))
    ELSE GeneratedSchedule(days_per_week, 2,
                           week_of_slots(days_per_week, "odd")
                           \o week_of_slots(days_per_week, "even"))

\* the rotating PPL generators taken as rotating over two weeks
ppl_rotation_of_two(days) ==
    GeneratedSchedule(days, 2,
                      week_of_slots(days, "week_mod_1")
                      \o week_of_slots(days, "week_mod_2")
                      \o week_of_slots(days, "week_mod_0"))

\* _generate_ppl_5day, _generate_ppl_4day and _generate_ppl_2day: one week of
\* slots for each of week_patterns = ['week_mod_1', 'week_mod_2', 'week_mod_0']
ppl_rotation(days) ==
    GeneratedSchedule(days, 3,
                      week_of_slots(days, "week_mod_1")
                      \o week_of_slots(days, "week_mod_2")
                      \o week_of_slots(days, "week_mod_0"))

_generate_ppl(days_per_week) ==
    IF days_per_week >= 6 THEN GeneratedSchedule(6, 1, week_of_slots(6, NoPattern))
    ELSE IF days_per_week = 5 THEN ppl_rotation(5)
    ELSE IF days_per_week = 4 THEN ppl_rotation(4)
    ELSE IF days_per_week = 3 THEN GeneratedSchedule(3, 1, week_of_slots(3, NoPattern))
    ELSE ppl_rotation(2)

_generate_custom(days_per_week) ==
    GeneratedSchedule(days_per_week, 1, week_of_slots(days_per_week, NoPattern))

generate_schedule(split_type, days_per_week) ==
    IF split_type = "full_body" THEN _generate_full_body(days_per_week)
    ELSE IF split_type = "upper_lower" THEN _generate_upper_lower(days_per_week)
    ELSE IF split_type = "ppl" THEN _generate_ppl(days_per_week)
    ELSE _generate_custom(days_per_week)

\* week 1 resolved to week_mod_0: the week counted from zero
get_week_pattern_for_week_from_zero(week_number, rotation_weeks) ==
    IF rotation_weeks = 1 THEN NoPattern
    ELSE IF rotation_weeks = 2
         THEN (IF week_number % 2 = 1 THEN "odd" ELSE "even")
         ELSE week_mod_tag((week_number - 1) % rotation_weeks)

get_week_pattern_for_week(week_number, rotation_weeks) ==
    IF rotation_weeks = 1 THEN NoPattern
    ELSE IF rotation_weeks = 2
         THEN (IF week_number % 2 = 1 THEN "odd" ELSE "even")
    ELSE IF rotation_weeks = 3
         THEN LET mod == week_number % 3
              IN  IF mod = 1 THEN "week_mod_1"
                  ELSE IF mod = 2 THEN "week_mod_2"
                  ELSE "week_mod_0"
    ELSE week_mod_tag(week_number % rotation_weeks)

\* the pattern get_cycle_workout_slots_for_week filters by (week_pattern null or
\* equal to it); None: no filter, all slots apply
week_pattern_filter(week_number, rotation_weeks) ==
    IF rotation_weeks = 1 THEN NoPattern
    ELSE IF rotation_weeks = 2
         THEN (IF week_number % 2 = 1 THEN "odd" ELSE "even")
         ELSE LET mod == week_number % rotation_weeks
                  stored == IF mod = 0 THEN rotation_weeks ELSE mod
              IN  week_mod_tag(stored % rotation_weeks)

\* a direct call of generate_schedule, while the cycle is being set up
generate_schedule_call(split_type, days_per_week) ==
    /\ cycles = <<>>
    /\ last_schedule' =
           <<[caller |-> "generate_schedule", split_type |-> split_type,
              days_per_week |-> days_per_week, code |-> 0,
              schedule |-> generate_schedule(split_type, days_per_week)]>>
    /\ UNCHANGED <<last_plan, cycle_exercises, last_lookup, notification_log,
                   deliveries, week_vars, signal_vars, advisor_vars, cycle_vars,
                   coach_vars>>

\* GET /api/schedule/preview
api_schedule_preview(split_type, days_per_week) ==
    /\ cycles = <<>>
    /\ LET rejected == \/ days_per_week < 2 \/ days_per_week > 6
                       \/ split_type \notin {"full_body", "upper_lower", "ppl", "custom"}
       IN  last_schedule' =
               <<[caller |-> "api_schedule_preview", split_type |-> split_type,
                  days_per_week |-> days_per_week,
                  code |-> IF rejected THEN 400 ELSE 200,
                  schedule |-> IF rejected THEN NoSchedule
                               ELSE generate_schedule(split_type, days_per_week)]>>
    /\ UNCHANGED <<last_plan, cycle_exercises, last_lookup, notification_log,
                   deliveries, week_vars, signal_vars, advisor_vars, cycle_vars,
                   coach_vars>>

\* the slots the cycle wizard posts: the generated days laid on consecutive
\* weekdays from first_day on
posted_slots(schedule, first_day) ==
    [i \in DOMAIN schedule.workout_slots |->
        [day_of_week |-> first_day + schedule.workout_slots[i].day_number - 1,
         week_pattern |-> schedule.workout_slots[i].week_pattern]]

\* the ids of the rows with week_start <= scheduled_date <= week_end (gte, lte)
get_scheduled_workouts_for_week(week_start) ==
    {id \in DOMAIN scheduled_workouts :
        /\ ~iso_lt(isoformat(scheduled_workouts[id].scheduled_date), isoformat(week_start))
        /\ ~iso_lt(isoformat(week_start + 6),
                   isoformat(scheduled_workouts[id].scheduled_date))}

\* GET /plan on the day `day`, with or without ?week=
plan(day, requested_week) ==
    /\ today' = day
    /\ LET has_cycle == cycles # <<>> /\ cycles[1].status = "active"
           cycle == cycles[1]
           days_since_start == day - cycle.start_date
           actual_current_week ==
               max(1, min(cycle.length_weeks, (days_since_start \div 7) + 1))
           current_week ==
               IF ~has_cycle THEN 1
               ELSE IF requested_week # NoneValue /\ requested_week # 0
               THEN max(1, min(cycle.length_weeks, requested_week))
               ELSE actual_current_week
           cycle_week_start == cycle.start_date + 7 * (current_week - 1)
           week_start == IF has_cycle
                         THEN cycle_week_start - weekday(cycle_week_start)
                         ELSE day - weekday(day)
       IN  last_plan' =
               <<[today |-> day, requested_week |-> requested_week,
                  has_cycle |-> has_cycle, current_week |-> current_week,
                  week_start |-> week_start, week_end |-> week_start + 6,
                  scheduled_workouts |->
                      IF has_cycle THEN get_scheduled_workouts_for_week(week_start)
                      ELSE {}]>>
    /\ UNCHANGED <<last_adapt, last_schedule, cycle_exercises, last_lookup,
                   notification_log, deliveries, signal_vars, advisor_vars,
                   cycle_vars, coach_vars>>

--------------------------------------------------------------------------
(* Cycle exercises (db_cycles.py).  A row is [cycle_workout_slot_id,       *)
(* order_index, week_number]; a query result is the sequence of the        *)
(* positions of its rows in the table.                                     *)

\* .order('order_index') and list.sort(key=order_index): stable
order_by_order_index(ids) ==
    LET n == Len(ids)
        key(a) == cycle_exercises[ids[a]].order_index
        before(a, b) == key(a) < key(b) \/ (key(a) = key(b) /\ a < b)
        pos(i) == 1 + Cardinality({j \in 1..n : before(j, i)})
    IN  [k \in 1..n |-> ids[CHOOSE i \in 1..n : pos(i) = k]]

\* the rows a query selects; slot_id None: every slot of the cycle
select_exercises(slot_id, week_numbers) ==
    order_by_order_index(
        SelectSeq([i \in DOMAIN cycle_exercises |-> i],
                  LAMBDA i : /\ slot_id # NoneValue =>
                                    cycle_exercises[i].cycle_workout_slot_id = slot_id
                             /\ cycle_exercises[i].week_number \in week_numbers))

\* no row ever taken over a row seen before
replaces_never(ex, existing) == FALSE

\* the elif of the loop over exercises: week-specific over generic
replaces(ex, existing) ==
    ex.week_number # NoneValue /\ existing.week_number = NoneValue

\* the loop that fills `seen`, a dict in insertion order
RECURSIVE prefer_week_specific(_, _, _)
prefer_week_specific(ids, i, seen) ==
    IF i > Len(ids) THEN seen
    ELSE LET ex == cycle_exercises[ids[i]]
             at == {k \in DOMAIN seen :
                       /\ cycle_exercises[seen[k]].cycle_workout_slot_id
                              = ex.cycle_workout_slot_id
                       /\ cycle_exercises[seen[k]].order_index = ex.order_index}
         IN  IF at = {}
             THEN prefer_week_specific(ids, i + 1, Append(seen, ids[i]))
             ELSE LET k == CHOOSE k \in at : TRUE
                  IN  IF replaces(ex, cycle_exercises[seen[k]])
                      THEN prefer_week_specific(ids, i + 1, [seen EXCEPT ![k] = ids[i]])
                      ELSE prefer_week_specific(ids, i + 1, seen)

get_cycle_exercises(slot_id, week_number) ==
    IF week_number = NoneValue
    THEN select_exercises(slot_id, {cycle_exercises[i].week_number :
                                       i \in DOMAIN cycle_exercises})
    ELSE LET exercises == select_exercises(slot_id, {NoneValue, week_number})
         IN  IF exercises = <<>> THEN <<>>
             ELSE order_by_order_index(prefer_week_specific(exercises, 1, <<>>))

get_cycle_exercises_for_week(slot_id, week_number) ==
    LET specific == select_exercises(slot_id, {week_number})
    IN  IF specific # <<>> THEN specific
        ELSE select_exercises(slot_id, {NoneValue})

get_cycle_exercises_call(slot_id, week_number) ==
    /\ last_lookup' = <<[op |-> "get_cycle_exercises", slot_id |-> slot_id,
                         week_number |-> week_number, rotation_weeks |-> 0,
                         exercises |-> get_cycle_exercises(slot_id, week_number),
                         pattern |-> NoPattern]>>
    /\ UNCHANGED <<last_schedule, last_plan, cycle_exercises, notification_log,
                   deliveries, week_vars, signal_vars, advisor_vars, cycle_vars,
                   coach_vars>>

get_cycle_exercises_for_week_call(slot_id, week_number) ==
    /\ last_lookup' = <<[op |-> "get_cycle_exercises_for_week", slot_id |-> slot_id,
                         week_number |-> week_number, rotation_weeks |-> 0,
                         exercises |-> get_cycle_exercises_for_week(slot_id, week_number),
                         pattern |-> NoPattern]>>
    /\ UNCHANGED <<last_schedule, last_plan, cycle_exercises, notification_log,
                   deliveries, week_vars, signal_vars, advisor_vars, cycle_vars,
                   coach_vars>>

get_week_pattern_for_week_call(week_number, rotation_weeks) ==
    /\ last_lookup' = <<[op |-> "get_week_pattern_for_week", slot_id |-> NoneValue,
                         week_number |-> week_number,
                         rotation_weeks |-> rotation_weeks, exercises |-> <<>>,
                         pattern |-> get_week_pattern_for_week(week_number,
                                                               rotation_weeks)]>>
    /\ UNCHANGED <<last_schedule, last_plan, cycle_exercises, notification_log,
                   deliveries, week_vars, signal_vars, advisor_vars, cycle_vars,
                   coach_vars>>

--------------------------------------------------------------------------
(* Notifications (app.py, db_notifications.py) of one user who has both    *)
(* kinds enabled and never completed a workout.  A reference_date is the   *)
(* ISO string of a day, or <<>> for None; utcnow().date() and date.today() *)
(* are both `today`.  An entry of deliveries is one call of                *)
(* notification_service: what was to be sent, whether it was, and whether  *)
(* the log could be read before it and written after it.                   *)

MaxAttempts == 3

MaxNotifyDay == 2

\* the table after log_notification; the insert may raise, and None is returned
log_notification(log, notification_type, reference_id, reference_date, success, write_ok) ==
    IF write_ok
    THEN Append(log, [notification_type |-> notification_type,
                      reference_id |-> reference_id,
                      reference_date |-> reference_date,
                      status |-> IF success THEN "sent" ELSE "failed"])
    ELSE log

\* no notification ever found in the log
was_notification_sent_never(log, notification_type, reference_id, reference_date, read_ok) == FALSE

\* False when the query raises: `Err on side of sending`
was_notification_sent(log, notification_type, reference_id, reference_date, read_ok) ==
    /\ read_ok
    /\ \E i \in DOMAIN log :
           /\ log[i].notification_type = notification_type
           /\ log[i].status = "sent"
           /\ reference_id # NoneValue => log[i].reference_id = reference_id
           /\ reference_date # <<>> => log[i].reference_date = reference_date

\* the workouts get_users_for_workout_reminders returns, as ids in id order
get_users_for_workout_reminders ==
    SelectSeq([id \in DOMAIN scheduled_workouts |-> id],
              LAMBDA id :
                  /\ scheduled_workouts[id].status = "scheduled"
                  /\ ~iso_lt(isoformat(scheduled_workouts[id].scheduled_date),
                             isoformat(today))
                  /\ ~iso_lt(isoformat(today + 1),
                             isoformat(scheduled_workouts[id].scheduled_date)))

Attempt(notification_type, reference_id, success, read_ok, write_ok) ==
    [notification_type |-> notification_type, reference_id |-> reference_id,
     day |-> today, success |-> success, checked |-> read_ok, logged |-> write_ok]

\* the loop of process_workout_reminders; done is [log, sends]
RECURSIVE remind_each(_, _, _, _, _, _)
remind_each(users_to_notify, i, done, send_ok, read_ok, write_ok) ==
    IF i > Len(users_to_notify) THEN done
    ELSE LET workout_id == users_to_notify[i]
             next(after) == remind_each(users_to_notify, i + 1, after,
                                        send_ok, read_ok, write_ok)
         IN  IF was_notification_sent(done.log, "workout_reminder", workout_id, <<>>,
                                      read_ok)
             THEN next(done)
             ELSE IF scheduled_workouts[workout_id].scheduled_date # today
             THEN next(done)
             ELSE next([log |-> log_notification(done.log, "workout_reminder",
                                                 workout_id, <<>>, send_ok, write_ok),
                        sends |-> Append(done.sends,
                                         Attempt("workout_reminder", workout_id,
                                                 send_ok, read_ok, write_ok))])

process_workout_reminders(send_ok, read_ok, write_ok) ==
    /\ LET done == remind_each(get_users_for_workout_reminders, 1,
                               [log |-> notification_log, sends |-> deliveries],
                               send_ok, read_ok, write_ok)
       IN  /\ Len(done.sends) <= MaxAttempts
           /\ notification_log' = done.log
           /\ deliveries' = done.sends
    /\ UNCHANGED <<last_schedule, last_plan, cycle_exercises, last_lookup, week_vars,
                   signal_vars, advisor_vars, cycle_vars, coach_vars>>

\* one user; each of the two checks looks for one reference_date
process_inactivity_nudges(days, nudge_type, send_ok, read_ok, write_ok) ==
    /\ LET recent_days == IF nudge_type = "inactivity_week" THEN 7 ELSE 30
           recent_cutoff == today - recent_days
           skipped ==
               \/ was_notification_sent(notification_log, nudge_type, NoneValue,
                                        isoformat(today), read_ok)
               \/ was_notification_sent(notification_log, nudge_type, NoneValue,
                                        isoformat(recent_cutoff), read_ok)
       IN  IF skipped
           THEN UNCHANGED <<notification_log, deliveries>>
           ELSE /\ Len(deliveries) < MaxAttempts
                /\ notification_log' =
                       log_notification(notification_log, nudge_type, NoneValue,
                                        isoformat(today), send_ok, write_ok)
                /\ deliveries' =
                       Append(deliveries,
                              Attempt(nudge_type, NoneValue, send_ok, read_ok, write_ok))
    /\ UNCHANGED <<last_schedule, last_plan, cycle_exercises, last_lookup, week_vars,
                   signal_vars, advisor_vars, cycle_vars, coach_vars>>

\* midnight
day_passes ==
    /\ today < MaxNotifyDay
    /\ today' = today + 1
    /\ UNCHANGED <<last_adapt, service_vars, signal_vars, advisor_vars, cycle_vars,
                   coach_vars>>

\* nothing planned, detected or asked yet
week_Idle ==
    /\ today = 0
    /\ last_adapt = <<>>

signal_Idle ==
    /\ weekly_summaries = <<>>
    /\ compound_trends = [lift \in Lifts |-> <<>>]
    /\ last_signals = <<>>

advisor_Idle ==
    /\ coach_recommendations = <<>>
    /\ adapted_workouts = 0
    /\ ai_usage_log = <<>>
    /\ llm_requests = <<>>
    /\ ai_settings = [enabled |-> TRUE, api_key |-> TRUE]
    /\ last_check = <<>>

service_Idle ==
    /\ last_schedule = <<>>
    /\ last_plan = <<>>
    /\ cycle_exercises = <<>>
    /\ last_lookup = <<>>
    /\ notification_log = <<>>
    /\ deliveries = <<>>

planner_Idle == week_Idle /\ signal_Idle /\ advisor_Idle /\ service_Idle

--------------------------------------------------------------------------
(* Requests *)

DaysOfWeek == 0..6

StartDates == 0..6

SlotData == [day_of_week : DaysOfWeek, week_pattern : WeekPatterns]

\* a second slot of a two-slot request
SecondSlotData ==
    {[day_of_week |-> 3, week_pattern |-> NoPattern],
     [day_of_week |-> 0, week_pattern |-> "even"],
     [day_of_week |-> 6, week_pattern |-> week_mod_tag(0)]}

SlotLists ==
    {<<s>> : s \in SlotData} \cup {<<s, t>> : s \in SlotData, t \in SecondSlotData}

\* the requests of the lifecycle specification: few rows, so that the
\* schedule requests can be interleaved freely
LifecycleSlotLists ==
    {<<>>,
     <<[day_of_week |-> 2, week_pattern |-> NoPattern]>>,
     <<[day_of_week |-> 0, week_pattern |-> "odd"],
       [day_of_week |-> 4, week_pattern |-> "even"]>>}

NewDates == {1, 9}

cycle_Init ==
    /\ cycles = <<>>
    /\ cycle_workout_slots = <<>>
    /\ scheduled_workouts = <<>>
    /\ response = NoResponse

coach_Idle ==
    /\ workout_sessions = <<>>
    /\ weight_suggestion_cache = {}
    /\ utcnow = 0
    /\ last_suggestion = <<>>

\* Schedule expansion over all start weekdays, lengths, rotations and slots
InitExpand == cycle_Init /\ coach_Idle /\ planner_Idle

NextExpand ==
    \E start_date \in StartDates, length_weeks \in 1..MaxWeeks,
       rotation_weeks \in 1..MaxRotation, workout_slots \in SlotLists :
        api_create_cycle(start_date, length_weeks, rotation_weeks, workout_slots)

SpecExpand == InitExpand /\ [][NextExpand]_vars

\* The life of one cycle and of its scheduled workouts
InitCycle == cycle_Init /\ coach_Idle /\ planner_Idle

NextCycle ==
    \/ \E start_date \in {0, 2}, length_weeks \in 1..2, rotation_weeks \in 1..2,
          workout_slots \in LifecycleSlotLists :
           api_create_cycle(start_date, length_weeks, rotation_weeks, workout_slots)
    \/ api_activate_cycle
    \/ \E scheduled_id \in 1..MaxScheduledRows, new_date \in NewDates :
           api_reschedule_workout(scheduled_id, new_date)
    \/ \E scheduled_id \in 1..MaxScheduledRows : api_skip_workout(scheduled_id)
    \/ \E scheduled_id \in 1..MaxScheduledRows : api_save_cycle_workout(scheduled_id)

SpecCycle == InitCycle /\ [][NextCycle]_vars

--------------------------------------------------------------------------
(* Specifications of the weight suggestions *)

MaxSessions == 3

MaxClock == 36

Weights == {NoneValue, 25, 100}

AvgReps == {10, 15, 24}

Sessions == [working_weight : Weights, avg_reps : AvgReps]

RepRanges == {<<8, 12>>, <<6, 8>>, <<10, 6>>}

Histories == UNION {[1..n -> Sessions] : n \in 0..MaxSessions}

\* every history, a suggestion computed without the cache
InitSuggest ==
    /\ cycle_Init
    /\ workout_sessions \in Histories
    /\ weight_suggestion_cache = {}
    /\ utcnow = 0
    /\ last_suggestion = <<>>
    /\ planner_Idle

NextSuggest ==
    \E range \in RepRanges, is_heavy \in BOOLEAN :
        calculate_weight_suggestion(range[1], range[2], is_heavy, FALSE)

SpecSuggest == InitSuggest /\ [][NextSuggest]_vars

\* the sessions logged under the cache specification
LoggedSessions ==
    {[working_weight |-> 100, avg_reps |-> 24],
     [working_weight |-> 25, avg_reps |-> 10],
     [working_weight |-> NoneValue, avg_reps |-> 24]}

InitCache == cycle_Init /\ coach_Idle /\ planner_Idle

NextCache ==
    \/ \E range \in RepRanges, is_heavy \in BOOLEAN, use_cache \in BOOLEAN :
           calculate_weight_suggestion(range[1], range[2], is_heavy, use_cache)
    \/ \E hours \in {12} : utcnow + hours <= MaxClock /\ tick(hours)
    \/ \E session \in LoggedSessions :
           Len(workout_sessions) < MaxSessions /\ save_workout(session)

SpecCache == InitCache /\ [][NextCache]_vars

--------------------------------------------------------------------------
(* Specification of the week status *)

\* the two cycles of the week specification: two rows each
WeekCycles ==
    {[length_weeks |-> 2, workout_slots |-> <<[day_of_week |-> 4, week_pattern |-> NoPattern]>>],
     [length_weeks |-> 1, workout_slots |-> <<[day_of_week |-> 0, week_pattern |-> NoPattern],
                                              [day_of_week |-> 4, week_pattern |-> NoPattern]>>]}

CycleIds == {NoneValue, 1}

InitWeek ==
    /\ cycle_Init /\ coach_Idle /\ signal_Idle /\ advisor_Idle /\ service_Idle
    /\ today \in 0..MaxDay
    /\ last_adapt = <<>>

NextWeek ==
    \/ \E c \in WeekCycles : api_create_cycle(0, c.length_weeks, 1, c.workout_slots)
    \/ \E scheduled_id \in 1..2 : api_skip_workout(scheduled_id)
    \/ \E scheduled_id \in 1..2 : api_save_cycle_workout(scheduled_id)
    \/ \E scheduled_id \in 1..2 : reschedule_workout_call(scheduled_id, 1)
    \/ \E cycle_id \in CycleIds : should_show_adapt_option(cycle_id)

SpecWeek == InitWeek /\ [][NextWeek]_vars

--------------------------------------------------------------------------
(* Specification of the training signals *)

Volumes == {0, 8000, 8500, 10000, 10500}

WeekSummaries ==
    {[total_volume |-> v, workouts_completed |-> 3] : v \in Volumes}
        \cup {[total_volume |-> 10000, workouts_completed |-> 1]}

SummaryLists == UNION {[1..n -> WeekSummaries] : n \in 0..MaxSummaries}

MaxWeights == {90, 100}

TrendLists == UNION {[1..n -> MaxWeights] : n \in {0} \cup 2..MaxTrendSessions}

SteadyWeeks ==
    <<[total_volume |-> 10000, workouts_completed |-> 3],
      [total_volume |-> 10000, workouts_completed |-> 3]>>

FlatTrends == [lift \in Lifts |-> <<100, 100, 100>>]

\* every list of summaries with flat lifts; every trend with two steady weeks
InitSignals ==
    /\ cycle_Init /\ coach_Idle /\ week_Idle /\ advisor_Idle /\ service_Idle
    /\ \/ weekly_summaries \in SummaryLists /\ compound_trends = FlatTrends
       \/ weekly_summaries = SteadyWeeks /\ compound_trends \in [Lifts -> TrendLists]
    /\ last_signals = <<>>

NextSignals == detect_signals_call

SpecSignals == InitSignals /\ [][NextSignals]_vars

--------------------------------------------------------------------------
(* Specification of the recommendation check and of the LLM budget *)

\* training data: plateau with rep ceiling, rep ceiling alone, completion
\* drop alone, no data
TrainingProfiles ==
    {[weekly_summaries |-> SteadyWeeks, compound_trends |-> FlatTrends],
     [weekly_summaries |-> SteadyWeeks,
      compound_trends |-> [lift \in Lifts |-> <<90, 100, 100>>]],
     [weekly_summaries |-> <<[total_volume |-> 10000, workouts_completed |-> 1],
                             [total_volume |-> 10000, workouts_completed |-> 1]>>,
      compound_trends |-> [lift \in Lifts |-> <<>>]],
     [weekly_summaries |-> <<>>, compound_trends |-> [lift \in Lifts |-> <<>>]]}

\* the usage of the hours before: none, or nine logged requests six hours ago
PriorUsage == {<<>>, [i \in 1..9 |-> 0 - 6]}

NoReply == [exception |-> "none", status_code |-> 200, text |-> <<>>]

Replies ==
    {[NoReply EXCEPT !.text = <<"{prescription}">>],
     [NoReply EXCEPT !.text = <<fence, "json", "{prescription}", fence>>],
     [NoReply EXCEPT !.text = <<"{}">>],
     [NoReply EXCEPT !.text = <<"[prescription]">>],
     [NoReply EXCEPT !.text = <<"Here", "is", "your", "plan">>],
     [NoReply EXCEPT !.status_code = 529],
     [NoReply EXCEPT !.exception = "Timeout", !.status_code = 0],
     [NoReply EXCEPT !.exception = "ConnectionError", !.status_code = 0]}

\* the replies of the recommendation specification
CheckReplies ==
    {[NoReply EXCEPT !.text = <<"{prescription}">>],
     [NoReply EXCEPT !.text = <<"{}">>],
     [NoReply EXCEPT !.text = <<"Here", "is", "your", "plan">>],
     [NoReply EXCEPT !.status_code = 529],
     [NoReply EXCEPT !.exception = "Timeout", !.status_code = 0]}

RecommendationCycles == {NoneValue, 1}

Settings ==
    {[enabled |-> TRUE, api_key |-> TRUE],
     [enabled |-> FALSE, api_key |-> TRUE],
     [enabled |-> TRUE, api_key |-> FALSE]}

\* Recommendation checks, with the user dismissing and the day passing
InitAdvisor ==
    /\ cycle_Init /\ coach_Idle /\ week_Idle /\ service_Idle
    /\ \E profile \in TrainingProfiles :
           /\ weekly_summaries = profile.weekly_summaries
           /\ compound_trends = profile.compound_trends
    /\ last_signals = <<>>
    /\ coach_recommendations = <<>>
    /\ adapted_workouts = 0
    /\ ai_usage_log \in PriorUsage
    /\ llm_requests = ai_usage_log
    /\ ai_settings \in Settings
    /\ last_check = <<>>

NextAdvisor ==
    \/ \E cycle_id \in RecommendationCycles, reply \in CheckReplies :
           check_and_get_recommendation(cycle_id, reply)
    \/ \E recommendation_id \in 1..MaxRecommendations :
           update_recommendation_status(recommendation_id, "dismissed")
    \/ \E hours \in {24} : utcnow + hours <= MaxClock /\ tick(hours)

SpecAdvisor == InitAdvisor /\ [][NextAdvisor]_vars

\* Adapt-my-week requests among recommendation checks: the LLM budget
InitBudget == InitAdvisor /\ ai_settings.enabled

NextBudget ==
    \/ \E reply \in Replies : generate_week_adaptation(1, reply)
    \/ \E reply \in {[NoReply EXCEPT !.text = <<"{prescription}">>],
                      [NoReply EXCEPT !.status_code = 529]} :
           check_and_get_recommendation(1, reply)
    \/ \E hours \in {12} : utcnow + hours <= MaxClock /\ tick(hours)

SpecBudget == InitBudget /\ [][NextBudget]_vars

--------------------------------------------------------------------------
(* Specification of the split patterns, their expansion and the plan view *)

\* a schedule is generated or previewed, the cycle is created from it, and
\* the plan is looked at on any day of the cycle
NextGenerate ==
    \/ \E split_type \in SplitTypes, days_per_week \in 0..7 :
           generate_schedule_call(split_type, days_per_week)
    \/ \E split_type \in SplitTypes \cup {"custom", "bro_split"}, days_per_week \in 0..7 :
           api_schedule_preview(split_type, days_per_week)
    \/ \E start_date \in StartDates, length_weeks \in 1..MaxWeeks, first_day \in 0..1 :
           /\ last_schedule # <<>>
           /\ last_schedule[1].schedule # NoSchedule
           /\ first_day + last_schedule[1].schedule.days_per_week <= 7
           /\ api_create_cycle(start_date, length_weeks,
                               last_schedule[1].schedule.rotation_weeks,
                               posted_slots(last_schedule[1].schedule, first_day))
    \/ \E day \in 0..(7 * MaxWeeks + 6), requested_week \in {NoneValue, 2} :
           /\ (cycles = <<>> \/ requested_week # NoneValue) => day = 0
           /\ plan(day, requested_week)

\* from the state of InitExpand: no cycle yet
SpecGenerate == InitExpand /\ [][NextGenerate]_vars

--------------------------------------------------------------------------
(* Specification of the suggestions recalled from the cache, the session  *)
(* history staying as it is                                               *)

InitRecall ==
    /\ cycle_Init
    /\ workout_sessions \in {history \in Histories : Len(history) = 2}
    /\ weight_suggestion_cache = {}
    /\ utcnow = 0
    /\ last_suggestion = <<>>
    /\ planner_Idle

NextRecall ==
    \/ \E range \in RepRanges, is_heavy \in BOOLEAN, use_cache \in BOOLEAN :
           calculate_weight_suggestion(range[1], range[2], is_heavy, use_cache)
    \/ \E hours \in {12} : utcnow + hours <= MaxClock /\ tick(hours)

SpecRecall == InitRecall /\ [][NextRecall]_vars

--------------------------------------------------------------------------
(* Specification of the exercise queries and of the week patterns *)

MaxExercises == 3

\* every table of up to MaxExercises rows, in every order
InitLookup ==
    /\ cycle_Init /\ coach_Idle /\ week_Idle /\ signal_Idle /\ advisor_Idle
    /\ last_schedule = <<>>
    /\ last_plan = <<>>
    /\ cycle_exercises \in
           UNION {[1..n -> [cycle_workout_slot_id : 1..2, order_index : 0..1,
                            week_number : {NoneValue, 1}]] : n \in 0..MaxExercises}
    /\ last_lookup = <<>>
    /\ notification_log = <<>>
    /\ deliveries = <<>>

NextLookup ==
    \/ \E slot_id \in {NoneValue, 1, 2}, week_number \in {NoneValue, 1, 2} :
           get_cycle_exercises_call(slot_id, week_number)
    \/ \E slot_id \in 1..2, week_number \in 1..2 :
           get_cycle_exercises_for_week_call(slot_id, week_number)
    \/ \E week_number \in 1..(2 * MaxRotation + 1), rotation_weeks \in 1..(MaxRotation + 1) :
           get_week_pattern_for_week_call(week_number, rotation_weeks)

SpecLookup == InitLookup /\ [][NextLookup]_vars

--------------------------------------------------------------------------
(* Specification of the notification jobs *)

\* the log is empty, or holds a week nudge sent and logged seven days before
\* day 0
InitNotify ==
    /\ cycles = <<>>
    /\ cycle_workout_slots = <<>>
    /\ scheduled_workouts =  \* two workouts, due on day 0 and on day 1
           [id \in 1..2 |-> [cycle_workout_slot_id |-> id, scheduled_date |-> id - 1,
                             week_number |-> 1, status |-> "scheduled"]]
    /\ response = NoResponse
    /\ coach_Idle /\ week_Idle /\ signal_Idle /\ advisor_Idle
    /\ last_schedule = <<>>
    /\ last_plan = <<>>
    /\ cycle_exercises = <<>>
    /\ last_lookup = <<>>
    /\ \/ notification_log = <<>> /\ deliveries = <<>>
       \/ /\ notification_log =
                  <<[notification_type |-> "inactivity_week", reference_id |-> NoneValue,
                     reference_date |-> isoformat(0 - 7), status |-> "sent"]>>
          /\ deliveries =
                  <<[notification_type |-> "inactivity_week", reference_id |-> NoneValue,
                     day |-> 0 - 7, success |-> TRUE, checked |-> TRUE, logged |-> TRUE]>>

\* the jobs run in any order and any number of times a day; in a run at most
\* one of the send, the read of the log and the write to it fails
NextNotify ==
    \/ \E send_ok, read_ok, write_ok \in BOOLEAN :
           /\ (send_ok /\ read_ok) \/ (send_ok /\ write_ok) \/ (read_ok /\ write_ok)
           /\ process_workout_reminders(send_ok, read_ok, write_ok)
    \/ \E send_ok, read_ok, write_ok \in BOOLEAN :
           /\ (send_ok /\ read_ok) \/ (send_ok /\ write_ok) \/ (read_ok /\ write_ok)
           /\ process_inactivity_nudges(7, "inactivity_week", send_ok, read_ok, write_ok)
    \/ \E send_ok, read_ok, write_ok \in BOOLEAN :
           /\ (send_ok /\ read_ok) \/ (send_ok /\ write_ok) \/ (read_ok /\ write_ok)
           /\ process_inactivity_nudges(30, "inactivity_month", send_ok, read_ok, write_ok)
    \/ day_passes

SpecNotify == InitNotify /\ [][NextNotify]_vars

--------------------------------------------------------------------------
(* Properties of the schedule and of its rows *)

rows_of(slot_id, week_number) ==
    {i \in DOMAIN scheduled_workouts :
        /\ scheduled_workouts[i].cycle_workout_slot_id = slot_id
        /\ scheduled_workouts[i].week_number = week_number}

\* C1: the ScheduledWorkout rows of a cycle are bulk-created exactly once: no
\* (slot, week_number) pair of the cycle ever has more than one row, whatever
\* the sequence of api_create_cycle and api_activate_cycle requests.
C1_ExpandedOnce ==
    \A i, j \in DOMAIN scheduled_workouts :
        (/\ scheduled_workouts[i].cycle_workout_slot_id
               = scheduled_workouts[j].cycle_workout_slot_id
         /\ scheduled_workouts[i].week_number = scheduled_workouts[j].week_number)
        => i = j

TransitionAllowed(before, after) ==
    \/ before = after
    \/ before = "scheduled" /\ after \in {"rescheduled", "completed", "skipped"}
    \/ before = "rescheduled" /\ after \in {"completed", "skipped"}

\* C2: the status of a ScheduledWorkout only moves scheduled -> {rescheduled,
\* completed, skipped} and rescheduled -> {completed, skipped}; a completed or
\* skipped row never changes status again.
C2_StatusTransitions ==
    [][\A i \in DOMAIN scheduled_workouts :
          TransitionAllowed(scheduled_workouts[i].status,
                            scheduled_workouts'[i].status)]_vars

\* C3: a reschedule request on a completed row is rejected with an error and
\* leaves its date and status unchanged; a reschedule request on a scheduled
\* row succeeds and sets status rescheduled with the new date.
C3_RescheduleContract ==
    response.op = "reschedule" =>
        LET row == scheduled_workouts[response.scheduled_id]
        IN  /\ response.before_status = "completed" =>
                  /\ response.code >= 400
                  /\ row.status = "completed"
                  /\ row.scheduled_date = response.before_date
            /\ response.before_status = "scheduled" =>
                  /\ response.code = 200
                  /\ row.status = "rescheduled"
                  /\ row.scheduled_date = response.new_date

\* the Monday on or before a date
MondayOnOrBefore(d) == CHOOSE m \in (d - 6)..d : m % 7 = 0

\* C4: every row of the expansion is dated Monday(start_date) + 7*(week_number-1)
\* + slot.day_of_week, whatever weekday the cycle starts on.
C4_DateAnchoredToMonday ==
    \A i \in DOMAIN scheduled_workouts :
        LET row == scheduled_workouts[i]
            slot == cycle_workout_slots[row.cycle_workout_slot_id]
        IN  /\ row.week_number \in 1..cycles[1].length_weeks
            /\ row.scheduled_date = MondayOnOrBefore(cycles[1].start_date)
                                    + 7 * (row.week_number - 1) + slot.day_of_week

\* a cycle starting on a Wednesday whose week 1 and week 2 rows are dated
\* from the Monday before the start
C4_Witness ==
    /\ cycles # <<>>
    /\ cycles[1].start_date = 2
    /\ \E i, j \in DOMAIN scheduled_workouts :
          /\ scheduled_workouts[i].week_number = 1
          /\ scheduled_workouts[i].scheduled_date = 0
          /\ scheduled_workouts[j].week_number = 2
          /\ scheduled_workouts[j].scheduled_date = 13

\* the tag of a week as the specification resolves it
ResolvedTag(week, rotation_weeks) ==
    CASE rotation_weeks = 1 -> NoPattern
      [] rotation_weeks = 2 -> IF week % 2 = 0 THEN "even" ELSE "odd"
      [] OTHER -> "week_mod_" \o Digits[(week % rotation_weeks) + 1]

\* C5 as stated: a (slot, week) pair has a row iff the slot's pattern is None
\* or equals the tag resolved for the week, also when rotation_weeks = 1.
C5_ScheduledIffPatternMatches ==
    cycles # <<>> =>
        \A s \in DOMAIN cycle_workout_slots, week \in 1..cycles[1].length_weeks :
            rows_of(s, week) # {}
            <=> \/ cycle_workout_slots[s].week_pattern = NoPattern
                \/ cycle_workout_slots[s].week_pattern
                      = ResolvedTag(week, cycles[1].rotation_weeks)

\* C5 amended: with rotation_weeks = 1 no pattern filter is applied and every
\* slot is scheduled every week; with rotation_weeks >= 2 a (slot, week) pair
\* has a row iff the slot's pattern is None or equals the tag resolved for it.
C5_ScheduledIffPatternMatchesOrNoRotation ==
    cycles # <<>> =>
        \A s \in DOMAIN cycle_workout_slots, week \in 1..cycles[1].length_weeks :
            rows_of(s, week) # {}
            <=> \/ cycle_workout_slots[s].week_pattern = NoPattern
                \/ cycles[1].rotation_weeks = 1
                \/ cycle_workout_slots[s].week_pattern
                      = ResolvedTag(week, cycles[1].rotation_weeks)

\* a 3-week rotation whose week_mod_0 slot is scheduled in week 3 only
C5_Witness ==
    /\ cycles # <<>>
    /\ cycles[1].rotation_weeks = 3
    /\ cycles[1].length_weeks = 3
    /\ \E s \in DOMAIN cycle_workout_slots :
          /\ cycle_workout_slots[s].week_pattern = "week_mod_0"
          /\ rows_of(s, 1) = {}
          /\ rows_of(s, 2) = {}
          /\ rows_of(s, 3) # {}

--------------------------------------------------------------------------
(* Properties of the weight suggestions *)

\* the last call, when it computed its result from the session history
FreshCall == last_suggestion # <<>> /\ last_suggestion[1].history_read

\* the sessions that call fetched: the 3 most recent ones at most
CallHistory == last_suggestion[1].history

\* the counts as the specification defines them, each on its own
CeilingHits(h, high) == Cardinality({i \in DOMAIN h : h[i].avg_reps >= 2 * high})

FloorMisses(h, low) == Cardinality({i \in DOMAIN h : h[i].avg_reps < 2 * low})

\* the decision table of the specification, first match wins; `unweighted`
\* says whether a most recent session without a working weight gives no_history
DecisionTable(h, low, high, is_heavy, unweighted) ==
    LET inc == IF is_heavy THEN 50 ELSE 25
        last == h[1].working_weight
    IN  IF h = <<>> \/ (unweighted /\ last = NoneValue)
        THEN [suggested_weight |-> NoneValue, reason |-> "no_history",
              confidence |-> "low"]
        ELSE IF CeilingHits(h, high) >= 2
        THEN [suggested_weight |-> last + inc, reason |-> "increase",
              confidence |-> "high"]
        ELSE IF FloorMisses(h, low) >= 2 /\ h[1].avg_reps < 2 * (low - 2)
        THEN [suggested_weight |-> IF last - inc > 0 THEN last - inc ELSE 0,
              reason |-> "decrease", confidence |-> "medium"]
        ELSE IF FloorMisses(h, low) >= 2
        THEN [suggested_weight |-> last, reason |-> "maintain", confidence |-> "medium"]
        ELSE [suggested_weight |-> last, reason |-> "maintain", confidence |-> "high"]

Decided(result) ==
    [suggested_weight |-> result.suggested_weight, reason |-> result.reason,
     confidence |-> result.confidence]

\* C6 as stated: a fresh computation returns the first matching row of the
\* decision table, no_history being the row of an empty history only.
C6_DecisionTable ==
    FreshCall =>
        LET c == last_suggestion[1]
        IN  Decided(c.result)
            = DecisionTable(CallHistory, c.target_rep_low, c.target_rep_high,
                            c.is_heavy, FALSE)

\* C6 amended: for target_rep_low <= target_rep_high, a fresh computation
\* returns no_history/low with null weight when there is no session or the most
\* recent session has no working weight, and otherwise the first matching row of
\* the decision table.
C6_DecisionTableWithWeight ==
    FreshCall =>
        LET c == last_suggestion[1]
        IN  c.target_rep_low <= c.target_rep_high =>
                Decided(c.result)
                = DecisionTable(CallHistory, c.target_rep_low, c.target_rep_high,
                                c.is_heavy, TRUE)

\* two sessions far below the floor at 2.5 lb, heavy: decrease, floored at 0
C6_Witness ==
    /\ FreshCall
    /\ Len(CallHistory) = 2
    /\ last_suggestion[1].target_rep_low = 8
    /\ last_suggestion[1].target_rep_high = 12
    /\ last_suggestion[1].is_heavy
    /\ CallHistory[1] = [working_weight |-> 25, avg_reps |-> 10]
    /\ CallHistory[2].avg_reps = 15
    /\ last_suggestion[1].result.reason = "decrease"
    /\ last_suggestion[1].result.suggested_weight = 0

\* the weight moves only on two corroborating sessions
MovesCorroborated(c) ==
    /\ c.result.suggested_weight > c.result.last_weight
          => CeilingHits(CallHistory, c.target_rep_high) >= 2
    /\ c.result.suggested_weight < c.result.last_weight
          => FloorMisses(CallHistory, c.target_rep_low) >= 2

\* C7 as stated: the suggested weight differs from the last weight only when
\* at least 2 sessions corroborate the move, and with a single session in
\* history the result is always maintain at last_weight.
C7_Hysteresis ==
    (FreshCall /\ CallHistory # <<>>) =>
        LET c == last_suggestion[1]
        IN  /\ MovesCorroborated(c)
            /\ Len(CallHistory) = 1 =>
                  /\ c.result.reason = "maintain"
                  /\ c.result.suggested_weight = CallHistory[1].working_weight

\* C7 amended: as stated, for a single session that has a working weight; a
\* single session without a working weight gives no_history with a null weight.
C7_HysteresisWithWeight ==
    (FreshCall /\ CallHistory # <<>>) =>
        LET c == last_suggestion[1]
        IN  /\ MovesCorroborated(c)
            /\ Len(CallHistory) = 1 =>
                  IF CallHistory[1].working_weight # NoneValue
                  THEN /\ c.result.reason = "maintain"
                       /\ c.result.suggested_weight = CallHistory[1].working_weight
                  ELSE /\ c.result.reason = "no_history"
                       /\ c.result.suggested_weight = NoneValue

\* a single session at the ceiling: maintain
C7_Witness ==
    /\ FreshCall
    /\ Len(CallHistory) = 1
    /\ CallHistory[1] = [working_weight |-> 100, avg_reps |-> 24]
    /\ last_suggestion[1].target_rep_high = 12
    /\ last_suggestion[1].result.reason = "maintain"
    /\ last_suggestion[1].result.suggested_weight = 100

ExactlyOneCeilingHitOfThree(c) ==
    /\ Len(CallHistory) = 3
    /\ CeilingHits(CallHistory, c.target_rep_high) = 1

\* C8 as stated: exactly 1 of the 3 most recent sessions at the ceiling gives
\* reason maintain, whatever the other two sessions are.  Stated for a range
\* with low <= high and a most recent session that has a working weight.
C8_NoiseRejection ==
    (/\ FreshCall
     /\ ExactlyOneCeilingHitOfThree(last_suggestion[1])
     /\ last_suggestion[1].target_rep_low <= last_suggestion[1].target_rep_high
     /\ CallHistory[1].working_weight # NoneValue) =>
        last_suggestion[1].result.reason = "maintain"

\* C8 amended: exactly 1 of the 3 most recent sessions at the ceiling never
\* gives increase: the reason is no_history when the most recent session has no
\* working weight, decrease when the other two sessions are below the floor and
\* the most recent avg_reps < low - 2, and maintain otherwise.
C8_NoiseRejectionNoIncrease ==
    (FreshCall /\ ExactlyOneCeilingHitOfThree(last_suggestion[1])) =>
        LET c == last_suggestion[1]
            others == {i \in 1..3 : ~(CallHistory[i].avg_reps >= 2 * c.target_rep_high)}
        IN  c.result.reason =
               IF CallHistory[1].working_weight = NoneValue THEN "no_history"
               ELSE IF /\ \A i \in others :
                              CallHistory[i].avg_reps < 2 * c.target_rep_low
                       /\ CallHistory[1].avg_reps < 2 * (c.target_rep_low - 2)
                    THEN "decrease"
                    ELSE "maintain"

\* the oldest of three sessions at the ceiling, the newer two in range
C8_Witness ==
    /\ FreshCall
    /\ Len(CallHistory) = 3
    /\ last_suggestion[1].target_rep_low = 6
    /\ last_suggestion[1].target_rep_high = 8
    /\ CallHistory[1] = [working_weight |-> 100, avg_reps |-> 15]
    /\ CallHistory[2].avg_reps = 15
    /\ CallHistory[3].avg_reps = 24
    /\ last_suggestion[1].result.reason = "maintain"

\* C9: after any call that computes its result from the session history (cache
\* miss, expired entry or use_cache=False) the cache entry holds that result,
\* valid for 24 hours.  Stated for the calls that reach the decision table.
C9_CacheWrittenAfterFresh ==
    (FreshCall /\ last_suggestion[1].result.reason # "no_history") =>
        LET c == last_suggestion[1]
        IN  \E row \in weight_suggestion_cache :
                /\ row.suggested_weight = c.result.suggested_weight
                /\ row.suggestion_reason = c.result.reason
                /\ row.confidence = c.result.confidence
                /\ row.valid_until = c.at + 24

\* C10: with use_cache, an entry with valid_until > now is returned (weight,
\* reason, confidence) without reading the session history; an entry with
\* valid_until <= now is never returned and the result is computed afresh.
C10_CacheHitOrFresh ==
    (last_suggestion # <<>> /\ last_suggestion[1].use_cache) =>
        LET c == last_suggestion[1]
            valid == {row \in c.cache_before : row.valid_until > c.at}
        IN  IF valid # {}
            THEN /\ ~c.history_read
                 /\ \E row \in valid :
                        /\ c.result.suggested_weight = row.suggested_weight
                        /\ c.result.reason = row.suggestion_reason
                        /\ c.result.confidence = row.confidence
            ELSE c.history_read

\* a hit, 12 hours on, on an entry written for another rep range and before
\* the newest session was saved: the entry is returned, the history not read
C10_Witness ==
    /\ last_suggestion # <<>>
    /\ last_suggestion[1].use_cache
    /\ ~last_suggestion[1].history_read
    /\ last_suggestion[1].at = 12
    /\ Len(workout_sessions) = 3
    /\ \E row \in weight_suggestion_cache :
          /\ row.valid_until = 24
          /\ row.based_on_sessions = 2
          /\ row.target_rep_range # <<last_suggestion[1].target_rep_low,
                                      last_suggestion[1].target_rep_high>>
          /\ last_suggestion[1].result.reason = row.suggestion_reason
          /\ last_suggestion[1].result.suggested_weight = row.suggested_weight

--------------------------------------------------------------------------
(* The recommendation check *)

\* a call of check_and_get_recommendation has just returned
CheckCalled ==
    /\ last_check' # last_check
    /\ last_check'[1].op = "check"

\* the user's pending recommendations that have not expired
UnexpiredPending ==
    {i \in DOMAIN coach_recommendations :
        /\ coach_recommendations[i].status = "pending"
        /\ coach_recommendations[i].expires_at > utcnow}

\* those of them a call naming cycle_id looks at
PendingOfCycle(cycle_id) ==
    {i \in UnexpiredPending :
        cycle_id = NoneValue \/ coach_recommendations[i].cycle_id = cycle_id}

BothCategoriesDetected ==
    LET signals == detect_training_signals(weekly_summaries, compound_trends)
    IN  signals.deload # <<>> /\ signals.progression # <<>>

\* C11: when no unexpired pending recommendation exists and both deload and
\* progression signals are detected, the check returns a recommendation of
\* type deload and inserts exactly one row, of type deload, whatever the LLM
\* replied.
C11_DeloadPriority ==
    [][(CheckCalled /\ UnexpiredPending = {} /\ BothCategoriesDetected) =>
           /\ last_check'[1].result.type = "deload"
           /\ ~last_check'[1].result.is_cached
           /\ Len(coach_recommendations') = Len(coach_recommendations) + 1
           /\ SubSeq(coach_recommendations', 1, Len(coach_recommendations))
                  = coach_recommendations
           /\ coach_recommendations'[Len(coach_recommendations')].recommendation_type
                  = "deload"
           /\ last_check'[1].result.id = Len(coach_recommendations')]_vars

\* both categories were detected, the LLM timed out, a deload was returned
C11_Witness ==
    /\ last_check # <<>>
    /\ last_check[1].op = "check"
    /\ last_check[1].signals.deload # <<>>
    /\ last_check[1].signals.progression # <<>>
    /\ last_check[1].reply.exception = "Timeout"
    /\ last_check[1].requested = 1
    /\ last_check[1].result.type = "deload"
    /\ last_check[1].result.prescription = _get_default_deload_prescription

Untouched ==
    /\ last_check'[1].result.is_cached
    /\ ~last_check'[1].detection_run
    /\ last_check'[1].requested = 0
    /\ llm_requests' = llm_requests
    /\ coach_recommendations' = coach_recommendations

\* C12 as stated: whenever the user has an unexpired pending recommendation, a
\* check returns it as cached, without detection, LLM request or new row.
C12_PendingReturned ==
    [][(CheckCalled /\ UnexpiredPending # {}) =>
           /\ Untouched
           /\ last_check'[1].result.id \in UnexpiredPending]_vars

\* C12 amended: a check returns the newest unexpired pending recommendation of
\* the cycle it names (of any cycle when it names none) as cached, without
\* detection, LLM request or new row; when there is none of that cycle, the
\* answer is not cached, whatever is pending for other cycles.
C12_PendingOfCycleReturned ==
    [][CheckCalled =>
           LET mine == PendingOfCycle(last_check'[1].cycle_id)
           IN  IF mine # {}
               THEN /\ Untouched
                    /\ last_check'[1].result.id \in mine
                    /\ \A i \in mine : i <= last_check'[1].result.id
               ELSE /\ ~last_check'[1].result.is_cached
                    /\ last_check'[1].detection_run]_vars

\* a second check of the same cycle found the recommendation of the first
C12_Witness ==
    /\ last_check # <<>>
    /\ last_check[1].op = "check"
    /\ last_check[1].cycle_id = 1
    /\ last_check[1].result.is_cached
    /\ last_check[1].result.id = 1
    /\ Len(coach_recommendations) = 1
    /\ coach_recommendations[1].cycle_id = 1

\* the collaborator failed: disabled, over the limit, no key, an exception,
\* a status other than 200, or a text that is no JSON or an empty object
CollaboratorFailed(call) ==
    \/ ~ai_settings.enabled
    \/ ~ai_settings.api_key
    \/ call.limited
    \/ call.reply.exception # "none"
    \/ call.reply.status_code # 200
    \/ call.reply.text \in {<<"{}">>, <<"Here", "is", "your", "plan">>}

\* a check that reached one of the two prescription generators
Prescribed(call) ==
    /\ call.op = "check"
    /\ call.detection_run
    /\ call.signals.deload # <<>> \/ call.signals.progression # <<>>

\* C13: the prescription generators of the deload and progression features
\* never return null and never raise, and on every collaborator failure they
\* return the deterministic fallback prescription of their feature.
C13_FallbackOnFailure ==
    \A k \in DOMAIN last_check :
        Prescribed(last_check[k]) =>
            LET call == last_check[k]
                prescription == call.result.prescription
            IN  /\ prescription # None
                /\ prescription.source # "raise"
                /\ prescription.source # "error"
                /\ CollaboratorFailed(call) =>
                       prescription = IF call.result.type = "deload"
                                      THEN _get_default_deload_prescription
                                      ELSE _get_default_progression_prescription

\* the LLM answered 200 with an empty object and the fallback was returned
C13_Witness ==
    /\ last_check # <<>>
    /\ Prescribed(last_check[1])
    /\ last_check[1].reply.text = <<"{}">>
    /\ last_check[1].reply.status_code = 200
    /\ last_check[1].requested = 1
    /\ last_check[1].result.type = "progression"
    /\ last_check[1].result.prescription = _get_default_progression_prescription

--------------------------------------------------------------------------
(* The LLM budget *)

\* C14: a user over the daily limit who asks for a week adaptation receives
\* the deterministic fallback adaptation, never an error value.
C14_LimitedGetsFallback ==
    \A k \in DOMAIN last_check :
        (last_check[k].op = "adapt_week" /\ last_check[k].limited) =>
            last_check[k].result.prescription = _get_default_adaptation

\* the requests posted in the 24 hours that end at time t
PostedInWindow(t) ==
    {i \in DOMAIN llm_requests :
        llm_requests[i] > t - LIMIT_WINDOW_HOURS /\ llm_requests[i] <= t}

\* C15: in any window of 24 hours at most daily_limit_per_user requests are
\* posted to the LLM for the user, whatever their outcome.
C15_RequestsWithinLimit ==
    \A i \in DOMAIN llm_requests :
        Cardinality(PostedInWindow(llm_requests[i])) <= DAILY_LIMIT_PER_USER

--------------------------------------------------------------------------
(* The week status and the adapt option *)

ids_of(list) == {list[k].id : k \in DOMAIN list}

\* the list under the key missed, empty without the key
MissedList(ws) == IF ws.missed = <<>> THEN <<>> ELSE ws.missed[1]

\* the rows of the week of the call
InWindow(call) ==
    {i \in DOMAIN call.rows :
        /\ call.rows[i].scheduled_date >= MondayOnOrBefore(call.day)
        /\ call.rows[i].scheduled_date <= MondayOnOrBefore(call.day) + 6}

\* C16: of the rows of the week [Monday(today), Monday(today) + 6], a row is
\* in missed if and only if its status is scheduled or rescheduled and its
\* date is before today; every missed row is also in remaining; no row dated
\* today or later is in missed.
C16_MissedIffOpenAndPast ==
    \A k \in DOMAIN last_adapt :
        last_adapt[k].cycle_id = 1 =>
            LET call == last_adapt[k]
                missed == ids_of(MissedList(call.week_status))
            IN  /\ missed \subseteq InWindow(call)
                /\ \A i \in InWindow(call) :
                       i \in missed <=>
                           /\ call.rows[i].status \in {"scheduled", "rescheduled"}
                           /\ call.rows[i].scheduled_date < call.day
                /\ missed \subseteq ids_of(call.week_status.remaining)
                /\ \A i \in missed : call.rows[i].scheduled_date < call.day

\* a rescheduled row dated yesterday is both missed and remaining
C16_Witness ==
    /\ last_adapt # <<>>
    /\ \E i \in ids_of(MissedList(last_adapt[1].week_status)) :
           /\ last_adapt[1].rows[i].status = "rescheduled"
           /\ last_adapt[1].rows[i].scheduled_date = last_adapt[1].day - 1
           /\ i \in ids_of(last_adapt[1].week_status.remaining)
    /\ \E i \in ids_of(last_adapt[1].week_status.remaining) :
           last_adapt[1].rows[i].scheduled_date >= last_adapt[1].day

mentions(reason, word) == \E k \in DOMAIN reason : reason[k] = word

MissedAny(ws) == Len(MissedList(ws)) >= 1

NotStartedLate(ws) ==
    Len(ws.completed) = 0 /\ Len(ws.scheduled) >= 1 /\ ws.day_of_week >= 3

AllDoneEarly(ws) ==
    /\ Len(ws.completed) = Len(ws.scheduled)
    /\ Len(ws.scheduled) >= 1
    /\ ws.days_remaining >= 2

\* C17: the three conditions are taken in order, first true wins: a missed
\* workout, then nothing completed with something scheduled from Thursday on,
\* then everything completed with two days left; (False, '') exactly when
\* none holds.
C17_FirstTrueWins ==
    \A k \in DOMAIN last_adapt :
        LET call == last_adapt[k]
            ws == call.week_status
        IN  /\ call.should_show <=> (MissedAny(ws) \/ NotStartedLate(ws) \/ AllDoneEarly(ws))
            /\ ~call.should_show <=> call.reason = <<>>
            /\ MissedAny(ws) => mentions(call.reason, "missed")
            /\ (~MissedAny(ws) /\ NotStartedLate(ws)) => mentions(call.reason, "started")
            /\ (~MissedAny(ws) /\ ~NotStartedLate(ws) /\ AllDoneEarly(ws)) =>
                   mentions(call.reason, "extra")
            /\ (/\ Len(ws.completed) >= 1
                /\ Len(ws.completed) < Len(ws.scheduled)
                /\ ~MissedAny(ws)) => (~call.should_show /\ call.reason = <<>>)

\* a missed workout and nothing started on Thursday: the reason is the missed one
C17_Witness ==
    /\ last_adapt # <<>>
    /\ MissedAny(last_adapt[1].week_status)
    /\ NotStartedLate(last_adapt[1].week_status)
    /\ last_adapt[1].should_show
    /\ mentions(last_adapt[1].reason, "missed")
    /\ ~mentions(last_adapt[1].reason, "started")

\* C18: nothing completed, a workout scheduled and remaining, Thursday or
\* later, no key missed in the week status: the option is shown with a reason
\* that mentions missed workouts.
C18_BehindMentionsMissed ==
    \A k \in DOMAIN last_adapt :
        LET ws == last_adapt[k].week_status
        IN  (/\ Len(ws.completed) = 0
             /\ Len(ws.scheduled) >= 1
             /\ Len(ws.remaining) >= 1
             /\ ws.day_of_week >= 3
             /\ ws.missed = <<>>) =>
                /\ last_adapt[k].should_show
                /\ mentions(last_adapt[k].reason, "missed")

--------------------------------------------------------------------------
(* The deload signals *)

signal_names(signals) == {signals[k].signal_name : k \in DOMAIN signals}

\* the weeks before the two newest, two at most
PriorWeeks(summaries) ==
    {k \in DOMAIN summaries : k >= 3 /\ k <= 4}

volume_of(summaries, weeks) ==
    LET RECURSIVE total(_)
        total(rest) == IF rest = {} THEN 0
                       ELSE LET k == CHOOSE x \in rest : TRUE
                            IN  summaries[k].total_volume + total(rest \ {k})
    IN  total(weeks)

\* mean(newest two) < 85% of mean(prior), the prior mean not being zero
VolumeDropped(summaries) ==
    LET prior == PriorWeeks(summaries)
        recent_total == volume_of(summaries, {1, 2})
        prior_total == volume_of(summaries, prior)
    IN  /\ prior # {}
        /\ prior_total > 0
        /\ recent_total * Cardinality(prior) * 100 < 85 * prior_total * 2

\* C19: with two or more weekly summaries, volume_drop fires if and only if
\* the mean volume of the newest two weeks is more than 15% below the mean of
\* the (at most two) weeks before them; without prior weeks or with a prior
\* mean of zero it does not fire.
C19_VolumeDrop ==
    \A k \in DOMAIN last_signals :
        Len(last_signals[k].weekly_summaries) >= 2 =>
            ("volume_drop" \in signal_names(last_signals[k].signals.deload)
                <=> VolumeDropped(last_signals[k].weekly_summaries))

\* the volumes 8000, 8500, 10000, 10500 fire volume_drop
C19_Witness ==
    /\ last_signals # <<>>
    /\ Len(last_signals[1].weekly_summaries) = 4
    /\ last_signals[1].weekly_summaries[1].total_volume = 8000
    /\ last_signals[1].weekly_summaries[2].total_volume = 8500
    /\ last_signals[1].weekly_summaries[3].total_volume = 10000
    /\ last_signals[1].weekly_summaries[4].total_volume = 10500
    /\ "volume_drop" \in signal_names(last_signals[1].signals.deload)

LastThree(sessions) == SubSeq(sessions, Len(sessions) - 2, Len(sessions))

NonIncreasing(sessions) ==
    /\ Len(sessions) >= 3
    /\ LastThree(sessions)[1] >= LastThree(sessions)[2]
    /\ LastThree(sessions)[2] >= LastThree(sessions)[3]

OldestIsHighest(sessions) ==
    /\ Len(sessions) >= 3
    /\ LastThree(sessions)[1] >= LastThree(sessions)[2]
    /\ LastThree(sessions)[1] >= LastThree(sessions)[3]

\* C20 as stated: with two or more weekly summaries, plateau fires if and only
\* if at least 3 lifts have 3 or more sessions and non-increasing max weights
\* over their last 3 sessions.
C20_PlateauNonIncreasing ==
    \A k \in DOMAIN last_signals :
        Len(last_signals[k].weekly_summaries) >= 2 =>
            ("plateau" \in signal_names(last_signals[k].signals.deload)
                <=> Cardinality({lift \in Lifts :
                        NonIncreasing(last_signals[k].compound_trends[lift])}) >= 3)

\* C20 amended: with two or more weekly summaries, plateau fires if and only
\* if at least 3 lifts have 3 or more sessions and, of their last 3 sessions,
\* the oldest has the highest max weight (ties included).
C20_PlateauOldestIsHighest ==
    \A k \in DOMAIN last_signals :
        Len(last_signals[k].weekly_summaries) >= 2 =>
            ("plateau" \in signal_names(last_signals[k].signals.deload)
                <=> Cardinality({lift \in Lifts :
                        OldestIsHighest(last_signals[k].compound_trends[lift])}) >= 3)

\* plateau fired although a lift rose from 90 to 100 in its last session
C20_Witness ==
    /\ last_signals # <<>>
    /\ Len(last_signals[1].weekly_summaries) >= 2
    /\ "plateau" \in signal_names(last_signals[1].signals.deload)
    /\ \E lift \in Lifts :
           LastThree(last_signals[1].compound_trends[lift]) = <<100, 90, 100>>

--------------------------------------------------------------------------
(* Properties of the split patterns and of the plan view *)

\* the rotation periods as documented
documented_rotation_weeks(split_type, days_per_week) ==
    IF split_type = "upper_lower" /\ days_per_week % 2 = 1 THEN 2
    ELSE IF split_type = "ppl" /\ days_per_week \in {2, 4, 5} THEN 3
    ELSE 1

\* a schedule was generated for one of the three splits and 2..6 days
ValidScheduleReturned ==
    /\ last_schedule # <<>>
    /\ last_schedule[1].split_type \in SplitTypes
    /\ last_schedule[1].days_per_week \in 2..6

\* C21: for the splits full_body, upper_lower and ppl and 2..6 days per week,
\* generate_schedule returns the documented rotation_weeks, and every non-null
\* week_pattern of a generated slot is the tag that get_week_pattern_for_week
\* and generate_cycle_schedule resolve for some week of 1..rotation_weeks;
\* under a rotation of three, week 1 resolves to week_mod_1, week 2 to
\* week_mod_2 and week 3 to week_mod_0.
C21_RotationAndTags ==
    ValidScheduleReturned =>
        LET call == last_schedule[1]
            rotation_weeks == call.schedule.rotation_weeks
            workout_slots == call.schedule.workout_slots
        IN  /\ rotation_weeks =
                   documented_rotation_weeks(call.split_type, call.days_per_week)
            /\ \A i \in DOMAIN workout_slots :
                   workout_slots[i].week_pattern # NoPattern =>
                       \E week \in 1..rotation_weeks :
                           /\ get_week_pattern_for_week(week, rotation_weeks)
                                  = workout_slots[i].week_pattern
                           /\ applicable_pattern(week, rotation_weeks)
                                  = workout_slots[i].week_pattern
            /\ rotation_weeks = 3 =>
                   /\ get_week_pattern_for_week(1, 3) = "week_mod_1"
                   /\ get_week_pattern_for_week(2, 3) = "week_mod_2"
                   /\ get_week_pattern_for_week(3, 3) = "week_mod_0"
                   /\ applicable_pattern(1, 3) = "week_mod_1"
                   /\ applicable_pattern(2, 3) = "week_mod_2"
                   /\ applicable_pattern(3, 3) = "week_mod_0"

\* ppl with 4 days: a rotation of three with slots tagged week_mod_0
C21_Witness ==
    /\ ValidScheduleReturned
    /\ last_schedule[1].split_type = "ppl"
    /\ last_schedule[1].days_per_week = 4
    /\ last_schedule[1].schedule.rotation_weeks = 3
    /\ \E i \in DOMAIN last_schedule[1].schedule.workout_slots :
           last_schedule[1].schedule.workout_slots[i].week_pattern = "week_mod_0"

\* C22 as stated: a call with days_per_week outside 2..6 returns no schedule,
\* for every split type.
C22_InvalidDaysRejected ==
    (last_schedule # <<>> /\ last_schedule[1].days_per_week \notin 2..6) =>
        last_schedule[1].schedule = NoSchedule

\* a cycle was created from a schedule of one of the three splits, 2..6 days
CycleOfValidSchedule == cycles # <<>> /\ ValidScheduleReturned

\* the Monday of the week `week` of the cycle
MondayOfWeek(week) ==
    cycles[1].start_date - weekday(cycles[1].start_date) + 7 * (week - 1)

C30_DefaultWeekHoldsToday ==
    (/\ last_plan # <<>>
     /\ last_plan[1].has_cycle
     /\ last_plan[1].requested_week = NoneValue
     /\ last_plan[1].today >= cycles[1].start_date
     /\ last_plan[1].today <= cycles[1].start_date + 7 * cycles[1].length_weeks - 1)
    => /\ last_plan[1].week_start <= last_plan[1].today
       /\ last_plan[1].today <= last_plan[1].week_end
       /\ \A id \in last_plan[1].scheduled_workouts :
              scheduled_workouts[id].week_number = last_plan[1].current_week

--------------------------------------------------------------------------
(* Properties of the exercise queries and of the week patterns *)

\* the last lookup was a call of `op`
LookedUp(op) == last_lookup # <<>> /\ last_lookup[1].op = op

\* rows i and j of the table are of the same slot and order_index
SameSlotAndIndex(i, j) ==
    /\ cycle_exercises[i].cycle_workout_slot_id = cycle_exercises[j].cycle_workout_slot_id
    /\ cycle_exercises[i].order_index = cycle_exercises[j].order_index

\* row i is of the slot asked for (of any slot, when none was asked for)
OfSlotAsked(i) ==
    last_lookup[1].slot_id # NoneValue =>
        cycle_exercises[i].cycle_workout_slot_id = last_lookup[1].slot_id

\* C23: get_cycle_exercises with a week number W returns at most one row per
\* (slot, order_index); a row for all weeks is returned only if the table has
\* no row of week W for the same slot and order_index; and every (slot,
\* order_index) that has a row for W or for all weeks is returned, whatever
\* the order of the rows in the table.
C23_OnePerSlotAndIndex ==
    (LookedUp("get_cycle_exercises") /\ last_lookup[1].week_number # NoneValue) =>
        LET exercises == last_lookup[1].exercises
            week == last_lookup[1].week_number
        IN  /\ \A a, b \in DOMAIN exercises :
                   a # b => ~SameSlotAndIndex(exercises[a], exercises[b])
            /\ \A a \in DOMAIN exercises :
                   /\ OfSlotAsked(exercises[a])
                   /\ cycle_exercises[exercises[a]].week_number \in {NoneValue, week}
                   /\ cycle_exercises[exercises[a]].week_number = NoneValue =>
                          ~\E i \in DOMAIN cycle_exercises :
                               /\ SameSlotAndIndex(i, exercises[a])
                               /\ cycle_exercises[i].week_number = week
            /\ \A i \in DOMAIN cycle_exercises :
                   (OfSlotAsked(i) /\ cycle_exercises[i].week_number \in {NoneValue, week})
                       => \E a \in DOMAIN exercises : SameSlotAndIndex(i, exercises[a])

\* the row for all weeks comes first in the table, the row of week 1 of the
\* same slot and order_index after it, and the query for week 1 returns the
\* latter
C23_Witness ==
    /\ LookedUp("get_cycle_exercises")
    /\ last_lookup[1].week_number = 1
    /\ \E i, j \in DOMAIN cycle_exercises :
           /\ i < j
           /\ SameSlotAndIndex(i, j)
           /\ cycle_exercises[i].week_number = NoneValue
           /\ cycle_exercises[j].week_number = 1
           /\ \E a \in DOMAIN last_lookup[1].exercises : last_lookup[1].exercises[a] = j

\* C26: for every week >= 1, get_week_pattern_for_week, the tag that
\* generate_cycle_schedule computes and the tag that
\* get_cycle_workout_slots_for_week filters by are the same string when
\* rotation_weeks >= 2, and no pattern at all when rotation_weeks = 1.
C26_ResolversAgree ==
    LookedUp("get_week_pattern_for_week") =>
        LET week == last_lookup[1].week_number
            rotation_weeks == last_lookup[1].rotation_weeks
        IN  /\ last_lookup[1].pattern = applicable_pattern(week, rotation_weeks)
            /\ last_lookup[1].pattern = week_pattern_filter(week, rotation_weeks)
            /\ rotation_weeks = 1 <=> last_lookup[1].pattern = NoPattern

\* week 8 of a rotation of four: week_mod_0, by the general branch
C26_Witness ==
    /\ LookedUp("get_week_pattern_for_week")
    /\ last_lookup[1].rotation_weeks = MaxRotation + 1
    /\ last_lookup[1].week_number = MaxRotation + 1
    /\ last_lookup[1].pattern = "week_mod_0"

\* no two rows of the table with the same slot, order_index and week_number
UniqueRows ==
    \A i, j \in DOMAIN cycle_exercises :
        cycle_exercises[i] = cycle_exercises[j] => i = j

\* C28 as stated: for every slot and week, get_cycle_exercises_for_week
\* returns the rows that get_cycle_exercises returns for that slot and week.
C28_SameExercises ==
    (LookedUp("get_cycle_exercises_for_week") /\ UniqueRows) =>
        LET merged == get_cycle_exercises(last_lookup[1].slot_id,
                                          last_lookup[1].week_number)
        IN  {last_lookup[1].exercises[a] : a \in DOMAIN last_lookup[1].exercises}
                = {merged[a] : a \in DOMAIN merged}

--------------------------------------------------------------------------
(* Property of the suggestions recalled from the cache *)

\* C27 as stated: with the session history unchanged, a call with
\* use_cache=True returns the reason and the suggested_weight that the
\* decision on the history gives for the call's own rep range and is_heavy.
C27_CachedEqualsFresh ==
    (last_suggestion # <<>> /\ last_suggestion[1].use_cache) =>
        LET call == last_suggestion[1]
            fresh == fresh_suggestion(get_recent_exercise_performance(HISTORY_LIMIT),
                                      call.target_rep_low, call.target_rep_high,
                                      call.is_heavy)
        IN  /\ call.result.reason = fresh.reason
            /\ call.result.suggested_weight = fresh.suggested_weight

--------------------------------------------------------------------------
(* Properties of the notification jobs *)

\* the days a nudge of the type keeps the next one away
NudgeWindow(nudge_type) == IF nudge_type = "inactivity_week" THEN 7 ELSE 30

\* C24 as stated: a nudge that was sent and logged is not followed, within 7
\* days (inactivity_week) or 30 days (inactivity_month), by another sent nudge
\* of its type from a run that could read the log.
C24_NoRepeatWithinWindow ==
    \A i, j \in DOMAIN deliveries :
        (/\ i < j
         /\ deliveries[i].notification_type \in {"inactivity_week", "inactivity_month"}
         /\ deliveries[j].notification_type = deliveries[i].notification_type
         /\ deliveries[i].success /\ deliveries[i].logged
         /\ deliveries[j].success /\ deliveries[j].checked)
        => deliveries[j].day - deliveries[i].day
               >= NudgeWindow(deliveries[i].notification_type)

\* deliveries i and j are reminders of the same workout, both sent
TwoRemindersSent(i, j) ==
    /\ i < j
    /\ deliveries[i].notification_type = "workout_reminder"
    /\ deliveries[j].notification_type = "workout_reminder"
    /\ deliveries[i].reference_id = deliveries[j].reference_id
    /\ deliveries[i].success
    /\ deliveries[j].success

=============================================================================
